---- MODULE Spec2Model ----
(***************************************************************************)
(* The asynchronous batch enhancement pipeline of                          *)
(* modules/async_enhancement_processor.py: the chunker (create_chunks),    *)
(* the response parser (_parse_batch_response), the concurrent             *)
(* orchestrator (process_all_batches_async) and the sequential fallback    *)
(* (process_large_batch_sync).                                             *)
(*                                                                         *)
(* Four specifications of it share the variables:                                *)
(*   SpecChunk   create_chunks applied to bounded item lists               *)
(*   SpecParse   _parse_batch_response applied to bounded response texts   *)
(*   Spec        process_all_batches_async on bounded batch lists          *)
(*   SpecParity  process_large_batch_sync, then process_all_batches_async  *)
(*               on the same batches and the same API outcomes             *)
(* and three more model modules/api_rate_limiter.py:                       *)
(*   SpecWindow  check_rate_limit and the recording of requests as the     *)
(*               clock advances                                            *)
(*   SpecSelect  select_best_model on bounded inputs and window states     *)
(*   SpecCall    concurrent make_api_call_with_retry calls                 *)
(***************************************************************************)
EXTENDS Integers, Sequences, FiniteSets, TLC

VARIABLES
    pc,              \* position of the routine under study
    content_items,   \* create_chunks / process_large_batch_sync: the input items
    chunks,          \* the list of batches (create_chunks' result, the orchestrator's input)
    response_text,   \* _parse_batch_response: the response text
    expected_count,  \* _parse_batch_response: the expected number of entries
    enhanced_items,  \* _parse_batch_response: the returned list
    client,          \* self.client is set (not None)
    async_client,    \* self.async_client is set (not None)
    max_concurrent,  \* self.max_concurrent
    sem_value,       \* the asyncio.Semaphore's counter
    task_pc,         \* batch_id -> position of its process_with_semaphore task
    batch_results,   \* batch_id -> what its task returned to gather
    completed,       \* the nonlocal counter of process_all_batches_async
    progress,        \* the calls progress_callback received, in order: <<completed, total>>
    cb_calls,        \* batch_id -> number of progress_callback calls made by its task
    all_results,     \* the list process_all_batches_async returns
    api_outcome,     \* batch_id -> what the API answered for that batch
    dispatched,      \* batch_id -> number of enhance_batch_async calls made for it
    overtaken,       \* a batch has ended while a batch before it had not
    sync_i,          \* process_large_batch_sync: the loop index i
    sync_progress,   \* the calls progress_callback received from process_large_batch_sync
    sync_results,    \* the list process_large_batch_sync returns
    sync_sleeps,     \* the loop indexes i after which process_large_batch_sync slept
    now,             \* datetime.now(), in ticks
    clock_steps,     \* how many times the clock has been seen to advance
    request_times,   \* APIRateLimiter.request_times: timestamp -> number of entries
    issued,          \* model -> (timestamp -> number of API requests recorded for it)
    usage_stats,     \* APIRateLimiter.usage_stats
    ret,             \* what the last check_rate_limit / select_best_model call returned
    calls,           \* call id -> the state of its make_api_call_with_retry call
    max_retries,     \* the max_retries argument of the calls
    last_denial,     \* the last check_rate_limit that refused, until a request is recorded
    requests,        \* how many requests the window specification has recorded
    limiter_clients, \* APIRateLimiter.client and .async_client are set (not None)
    successes,       \* _update_usage_stats calls since usage_stats was last replaced
    usage_ops        \* how many operations the usage specification has made

vars == <<pc, content_items, chunks, response_text, expected_count, enhanced_items,
          client, async_client, max_concurrent, sem_value, task_pc, batch_results,
          completed, progress, cb_calls, all_results, api_outcome, dispatched, overtaken,
          sync_i, sync_progress, sync_results, sync_sleeps,
          now, clock_steps, request_times, issued, usage_stats, ret, calls, max_retries,
          last_denial, requests, limiter_clients, successes, usage_ops>>

chunkVars == <<content_items, chunks>>
parseVars == <<response_text, expected_count, enhanced_items>>
asyncVars == <<sem_value, task_pc, batch_results, completed, progress, cb_calls,
               all_results, dispatched, overtaken>>
syncVars == <<sync_i, sync_progress, sync_results, sync_sleeps>>
configVars == <<client, async_client, max_concurrent>>
limiterVars == <<now, clock_steps, request_times, issued, usage_stats, ret, calls,
                 max_retries, last_denial, requests, limiter_clients, successes, usage_ops>>

(***************************************************************************)
(* Bounds of the model.                                                    *)
(***************************************************************************)
MaxItems == 11        \* create_chunks: longest item list
MaxRespLen == 4       \* _parse_batch_response: longest response text, in tokens
MaxExpected == 3      \* _parse_batch_response: largest expected_count
MaxBatches == 3       \* process_all_batches_async: most batches
MaxBatchLen == 2      \* process_all_batches_async: longest batch
MaxConc == 2          \* largest max_concurrent
MaxSyncItems == 6     \* process_large_batch_sync: longest item list

(***************************************************************************)
(* Program constants.                                                      *)
(***************************************************************************)
ChunkSize == 15          \* chunk_size, the constructor's default
MinChunkItems == 5       \* "Minimum 5 items per chunk"
TokensPerWord10 == 13    \* len(content.split()) * 1.3, in tenths of a token

\* Word counts of the items' content. 1200 words are estimated at 1560 tokens,
\* above the budget of chunk_size * 100 = 1500 on their own; twelve items of
\* 100 words (130 tokens each) are needed to pass it.
WordChoices == {100, 1200}

Min(a, b) == IF a < b THEN a ELSE b

\* A content item: its position in the caller's list identifies it, words is
\* len(item['content'].split()).
Item(n, w) == [id |-> n, words |-> w]

(***************************************************************************)
(* create_chunks                                                           *)
(***************************************************************************)

\* estimated_tokens = len(content.split()) * 1.3, kept in tenths of a token so
\* that the arithmetic is exact. (13 * W = 15000 has no integer solution, so the
\* comparison with the budget never sits on a rounding boundary.)
EstimatedTokens10(item) == item.words * TokensPerWord10

\* self.chunk_size * 100, in tenths of a token
ChunkBudget10 == ChunkSize * 100 * 10

\* Mutant: the minimum-size test dropped from the closing condition.
ClosesChunkNoMinimum(current_chunk, current_size, estimated) ==
    current_size + estimated > ChunkBudget10

\* "Check if adding this item would exceed chunk size"
ClosesChunk(current_chunk, current_size, estimated) ==
    /\ current_size + estimated > ChunkBudget10
    /\ Len(current_chunk) >= MinChunkItems

\* Mutant: the item that closes a chunk is not carried into the next one.
ChunkStepDropping(st, item) ==
    LET estimated == EstimatedTokens10(item) IN
    IF ClosesChunk(st.current_chunk, st.current_size, estimated)
    THEN [chunks |-> Append(st.chunks, st.current_chunk),
          current_chunk |-> <<>>,
          current_size |-> 0]
    ELSE [chunks |-> st.chunks,
          current_chunk |-> Append(st.current_chunk, item),
          current_size |-> st.current_size + estimated]

\* One iteration of "for item in content_items".
ChunkStep(st, item) ==
    LET estimated == EstimatedTokens10(item) IN
    IF ClosesChunk(st.current_chunk, st.current_size, estimated)
    THEN [chunks |-> Append(st.chunks, st.current_chunk),
          current_chunk |-> <<item>>,
          current_size |-> estimated]
    ELSE [chunks |-> st.chunks,
          current_chunk |-> Append(st.current_chunk, item),
          current_size |-> st.current_size + estimated]

RECURSIVE ChunkLoop(_, _)
ChunkLoop(st, items) ==
    IF items = <<>> THEN st
    ELSE ChunkLoop(ChunkStep(st, Head(items)), Tail(items))

\* Mutant: a final chunk shorter than the minimum is merged into the chunk
\* before it.
AddRemainingMerging(st) ==
    IF st.current_chunk = <<>> THEN st.chunks
    ELSE IF Len(st.current_chunk) < MinChunkItems /\ st.chunks # <<>>
         THEN [st.chunks EXCEPT ![Len(st.chunks)] = @ \o st.current_chunk]
         ELSE Append(st.chunks, st.current_chunk)

\* "Add remaining items"
AddRemaining(st) ==
    IF st.current_chunk # <<>> THEN Append(st.chunks, st.current_chunk)
    ELSE st.chunks

CreateChunks(items) ==
    AddRemaining(ChunkLoop([chunks |-> <<>>, current_chunk |-> <<>>,
                            current_size |-> 0], items))

(***************************************************************************)
(* _parse_batch_response                                                   *)
(*                                                                         *)
(* A text is a sequence of tokens: "W" a non-blank character, "S" a space, *)
(* "B" the blank-line separator "\n\n", "M" one match of the pattern       *)
(* "Enhanced Item \d+:".                                                   *)
(***************************************************************************)
Tokens == {"W", "S", "B", "M"}
Whitespace == {"S", "B"}

\* "[Enhancement failed - using original content]"
Placeholder == <<"FAILED">>

\* The pieces of text between the occurrences of sep: re.split(pattern, text)
\* for sep = "M", text.split('\n\n') for sep = "B". A text without sep gives
\* the one-element list [text], the empty text included.
RECURSIVE SplitOn(_, _)
SplitOn(text, sep) ==
    IF \A k \in 1..Len(text) : text[k] # sep THEN <<text>>
    ELSE LET k == CHOOSE k \in 1..Len(text) :
                      /\ text[k] = sep
                      /\ \A j \in 1..(k - 1) : text[j] # sep
         IN <<SubSeq(text, 1, k - 1)>> \o SplitOn(SubSeq(text, k + 1, Len(text)), sep)

\* str.strip()
RECURSIVE Strip(_)
Strip(s) ==
    IF s = <<>> THEN s
    ELSE IF Head(s) \in Whitespace THEN Strip(Tail(s))
    ELSE IF s[Len(s)] \in Whitespace THEN Strip(SubSeq(s, 1, Len(s) - 1))
    ELSE s

\* Mutant: the first part is kept even when it is blank.
RemoveEmptyFirstPartNever(parts) == parts

\* "Remove empty first part"
RemoveEmptyFirstPart(parts) ==
    IF parts # <<>> /\ Strip(parts[1]) = <<>> THEN Tail(parts) ELSE parts

\* Mutant: the padding loop is missing.
PadWithPlaceholderNever(items, count) == items

\* "If still not enough, pad with original content"
PadWithPlaceholder(items, count) ==
    items \o [k \in 1..(count - Len(items)) |-> Placeholder]

\* "Fallback: split by double newlines and take first N parts"
FallbackItems(text, count) ==
    LET fallback_parts == SplitOn(text, "B")
    IN PadWithPlaceholder(SubSeq(fallback_parts, 1, Min(count, Len(fallback_parts))),
                          count)

ParseBatchResponse(text, count) ==
    LET parts == RemoveEmptyFirstPart(SplitOn(text, "M"))
    IN IF Len(parts) = count
       THEN [k \in 1..Len(parts) |-> Strip(parts[k])]
       ELSE FallbackItems(text, count)

(***************************************************************************)
(* enhance_batch_async / _enhance_batch_sync                               *)
(*                                                                         *)
(* What the API answers for one batch call: an exception (a network or API *)
(* error, or a response without text), or a response text. The tone and    *)
(* the timestamp of a result and the token_usage of a batch result are not *)
(* modelled.                                                               *)
(***************************************************************************)
ApiError == [ok |-> FALSE, text |-> <<>>]
ApiResponse(t) == [ok |-> TRUE, text |-> t]

\* The response texts the API is taken to answer with: an empty text, two
\* labelled items, two unlabelled paragraphs.
ApiResponses == {<<>>, <<"M", "W", "M", "W">>, <<"W", "B", "W">>}
\* A response whose message.content is None: re.split raises TypeError in
\* _parse_batch_response and the except clause of the caller takes over.
ApiNoContent == [ok |-> TRUE, text |-> <<"None">>]
ApiOutcomes == {ApiError, ApiNoContent} \cup {ApiResponse(t) : t \in ApiResponses}

\* The batch with batch_id b (batch ids count from 0).
BatchIds == 0..(Len(chunks) - 1)
BatchOf(b) == chunks[b + 1]

\* the "success": False returns of enhance_batch_async
FailedBatch(b, why) ==
    [batch_id |-> b, success |-> FALSE, error |-> why, results |-> <<>>]

\* Mutant: an item whose text is the failure placeholder gets no result.
BatchResultsOfSkippingFailed(batch, enhanced, b) ==
    SelectSeq([i \in 1..Min(Len(batch), Len(enhanced)) |->
                  [original |-> batch[i], enhanced |-> enhanced[i],
                   batch_id |-> b, item_index |-> i - 1]],
              LAMBDA r : r.enhanced # Placeholder)

\* Mutant: item_index counts from 1.
BatchResultsOfOneBased(batch, enhanced, b) ==
    [i \in 1..Min(Len(batch), Len(enhanced)) |->
        [original |-> batch[i], enhanced |-> enhanced[i],
         batch_id |-> b, item_index |-> i]]

\* "Create results": enumerate(zip(batch, enhanced_items)), item_index from 0
BatchResultsOf(batch, enhanced, b) ==
    [i \in 1..Min(Len(batch), Len(enhanced)) |->
        [original |-> batch[i], enhanced |-> enhanced[i],
         batch_id |-> b, item_index |-> i - 1]]

\* enhance_batch_async / _enhance_batch_sync once the API call has ended with
\* outcome o.
EnhanceBatch(batch, b, o) ==
    IF ~o.ok THEN FailedBatch(b, "api error")
    ELSE IF o = ApiNoContent THEN FailedBatch(b, "response error")
    ELSE [batch_id |-> b, success |-> TRUE, error |-> "",
          results |-> BatchResultsOf(batch, ParseBatchResponse(o.text, Len(batch)), b)]

\* "if not self.async_client" / "if not self.client"
NoClient(b) == FailedBatch(b, "OpenAI client not available")

\* The outcome o is what the API answers for batch b: any outcome the first
\* time the batch is sent, the same outcome when it is sent again.
Answers(b, o) ==
    /\ o \in ApiOutcomes
    /\ b \in DOMAIN api_outcome => api_outcome[b] = o

RecordOutcome(b, o) ==
    [x \in DOMAIN api_outcome \cup {b} |-> IF x = b THEN o ELSE api_outcome[x]]

(***************************************************************************)
(* process_all_batches_async                                               *)
(*                                                                         *)
(* gather schedules one process_with_semaphore task per batch; the event   *)
(* loop runs each task's first step in batch order before anything else.   *)
(* A task is suspended only at the semaphore, in asyncio.sleep and in the  *)
(* API call; everything between two suspensions is one step. A progress    *)
(* callback is passed and does not raise.                                  *)
(***************************************************************************)
NoResult == [batch_id |-> -1, success |-> FALSE, error |-> "pending", results |-> <<>>]

AllStarted == \A b \in BatchIds : task_pc[b] # "created"
AllDone == \A b \in BatchIds : task_pc[b] = "done"
InFlight == {b \in BatchIds : task_pc[b] \in {"sleeping", "calling"}}

\* Mutant: the semaphore lets every task in.
CanAcquireAlways(value) == TRUE

\* Semaphore.acquire returns at once when the counter is positive
CanAcquire(value) == value > 0

\* Mutant: the callback is called for successful batches only.
ProgressAfterIfSuccess(log, count, total, result) ==
    IF result.success THEN Append(log, <<count, total>>) ELSE log

\* "if progress_callback: progress_callback(completed, len(chunks))"
ProgressAfter(log, count, total, result) == Append(log, <<count, total>>)

\* Mutant: a task whose batch failed does not call the callback.
CallbackCountIfSuccess(n, result) == IF result.success THEN n + 1 ELSE n

\* the callback calls made by one task
CallbackCount(n, result) == n + 1

\* The end of process_with_semaphore for batch b: the batch call returned
\* result; completed += 1, the callback, the return to gather, and the release
\* of the semaphore, of which the task held one unit (value is the counter
\* while it held it).
Finish(b, result, value) ==
    /\ batch_results' = [batch_results EXCEPT ![b] = result]
    /\ completed' = completed + 1
    /\ progress' = ProgressAfter(progress, completed + 1, Len(chunks), result)
    /\ cb_calls' = [cb_calls EXCEPT ![b] = CallbackCount(@, result)]
    /\ task_pc' = [task_pc EXCEPT ![b] = "done"]
    /\ sem_value' = value + 1
    /\ overtaken' = (overtaken \/ \E x \in BatchIds : x < b /\ task_pc[x] # "done")

\* Mutant: no batch is paced.
NeedsPacingNever(b) == FALSE

\* "if batch_id > 0: await asyncio.sleep(self.rate_limit_delay)"
NeedsPacing(b) == b > 0

\* What a task does from the moment it holds the semaphore to its next
\* suspension: the pacing sleep for batch_id > 0, else the batch call.
AfterAcquire(b, value) ==
    IF NeedsPacing(b)
    THEN /\ task_pc' = [task_pc EXCEPT ![b] = "sleeping"]
         /\ sem_value' = value
         /\ UNCHANGED <<batch_results, completed, progress, cb_calls, dispatched, overtaken>>
    ELSE /\ dispatched' = [dispatched EXCEPT ![b] = @ + 1]
         /\ IF async_client
            THEN /\ task_pc' = [task_pc EXCEPT ![b] = "calling"]
                 /\ sem_value' = value
                 /\ UNCHANGED <<batch_results, completed, progress, cb_calls, overtaken>>
            ELSE Finish(b, NoClient(b), value)

\* The entry of process_all_batches_async up to "await asyncio.gather".
AsyncBegin ==
    /\ pc \in {"async_entry", "sync_returned"}
    /\ pc' = "gather"
    /\ all_results' = <<>>
    /\ completed' = 0
    /\ progress' = <<>>
    /\ sem_value' = max_concurrent
    /\ task_pc' = [b \in BatchIds |-> "created"]
    /\ batch_results' = [b \in BatchIds |-> NoResult]
    /\ cb_calls' = [b \in BatchIds |-> 0]
    /\ dispatched' = [b \in BatchIds |-> 0]
    /\ overtaken' = FALSE
    /\ UNCHANGED <<chunkVars, parseVars, configVars, limiterVars, api_outcome, syncVars>>

\* The first step of the task of batch b: "async with semaphore".
TaskStart(b) ==
    /\ pc = "gather"
    /\ task_pc[b] = "created"
    /\ \A x \in BatchIds : x < b => task_pc[x] # "created"
    /\ IF CanAcquire(sem_value)
       THEN AfterAcquire(b, sem_value - 1)
       ELSE /\ task_pc' = [task_pc EXCEPT ![b] = "waiting"]
            /\ UNCHANGED <<sem_value, batch_results, completed, progress, cb_calls,
                           dispatched, overtaken>>
    /\ UNCHANGED <<pc, all_results, chunkVars, parseVars, configVars, limiterVars, api_outcome,
                   syncVars>>

\* A released unit goes to the task that has waited longest.
TaskWake(b) ==
    /\ pc = "gather"
    /\ AllStarted
    /\ task_pc[b] = "waiting"
    /\ \A x \in BatchIds : x < b => task_pc[x] # "waiting"
    /\ CanAcquire(sem_value)
    /\ AfterAcquire(b, sem_value - 1)
    /\ UNCHANGED <<pc, all_results, chunkVars, parseVars, configVars, limiterVars, api_outcome,
                   syncVars>>

\* asyncio.sleep(self.rate_limit_delay) ends; the task enters enhance_batch_async.
SleepDone(b) ==
    /\ pc = "gather"
    /\ AllStarted
    /\ task_pc[b] = "sleeping"
    /\ dispatched' = [dispatched EXCEPT ![b] = @ + 1]
    /\ IF async_client
       THEN /\ task_pc' = [task_pc EXCEPT ![b] = "calling"]
            /\ UNCHANGED <<sem_value, batch_results, completed, progress, cb_calls, overtaken>>
       ELSE Finish(b, NoClient(b), sem_value)
    /\ UNCHANGED <<pc, all_results, chunkVars, parseVars, configVars, limiterVars, api_outcome,
                   syncVars>>

\* The API call of batch b ends; the rest of enhance_batch_async and of
\* process_with_semaphore follows without suspension.
CallReturn(b) ==
    /\ pc = "gather"
    /\ AllStarted
    /\ task_pc[b] = "calling"
    /\ \E o \in ApiOutcomes :
          /\ Answers(b, o)
          /\ api_outcome' = RecordOutcome(b, o)
          /\ Finish(b, EnhanceBatch(BatchOf(b), b, o), sem_value)
    /\ UNCHANGED <<pc, all_results, dispatched, chunkVars, parseVars, configVars, limiterVars, syncVars>>

\* Mutant: the loop over batch_results stops at the first failed batch.
RECURSIVE CollectUntilFailure(_)
CollectUntilFailure(results) ==
    IF results = <<>> THEN <<>>
    ELSE IF Head(results).success
         THEN Head(results).results \o CollectUntilFailure(Tail(results))
         ELSE <<>>

\* Mutant: the results of a later batch are put before those of an earlier one.
RECURSIVE CollectLastFirst(_)
CollectLastFirst(results) ==
    IF results = <<>> THEN <<>>
    ELSE IF Head(results).success
         THEN CollectLastFirst(Tail(results)) \o Head(results).results
         ELSE CollectLastFirst(Tail(results))

\* "Process results": the results of the successful batches, in gather's order
RECURSIVE Collect(_)
Collect(results) ==
    IF results = <<>> THEN <<>>
    ELSE IF Head(results).success
         THEN Head(results).results \o Collect(Tail(results))
         ELSE Collect(Tail(results))

\* gather returns the tasks' results in the order of the tasks.
GatherResults == [k \in 1..Len(chunks) |-> batch_results[k - 1]]

AsyncReturn ==
    /\ pc = "gather"
    /\ AllDone
    /\ all_results' = Collect(GatherResults)
    /\ pc' = "async_returned"
    /\ UNCHANGED <<sem_value, task_pc, batch_results, completed, progress, cb_calls,
                   dispatched, overtaken,
                   chunkVars, parseVars, configVars, limiterVars, api_outcome, syncVars>>

(***************************************************************************)
(* process_large_batch_sync                                                *)
(***************************************************************************)

\* "chunks = self.create_chunks(content_items)", "all_results = []"
SyncBegin ==
    /\ pc = "sync_entry"
    /\ chunks' = CreateChunks(content_items)
    /\ sync_results' = <<>>
    /\ sync_progress' = <<>>
    /\ sync_sleeps' = {}
    /\ sync_i' = 0
    /\ pc' = IF CreateChunks(content_items) = <<>> THEN "sync_return" ELSE "sync_progress"
    /\ UNCHANGED <<content_items, parseVars, configVars, limiterVars, asyncVars, api_outcome>>

\* "if progress_callback: progress_callback(i, len(chunks))"
SyncProgress ==
    /\ pc = "sync_progress"
    /\ sync_progress' = Append(sync_progress, <<sync_i, Len(chunks)>>)
    /\ pc' = "sync_call"
    /\ UNCHANGED <<sync_i, sync_results, sync_sleeps, chunkVars, parseVars, configVars, limiterVars,
                   asyncVars, api_outcome>>

\* after the batch: "if i < len(chunks) - 1: time.sleep(...)", else the loop ends
AfterSyncBatch == IF sync_i < Len(chunks) - 1 THEN "sync_sleep" ELSE "sync_return"

\* "result = self._enhance_batch_sync(chunk, prompt_template, tone, i)" and the
\* extension of all_results
SyncCall ==
    /\ pc = "sync_call"
    /\ IF client
       THEN \E o \in ApiOutcomes :
               /\ Answers(sync_i, o)
               /\ api_outcome' = RecordOutcome(sync_i, o)
               /\ sync_results' =
                     sync_results \o Collect(<<EnhanceBatch(BatchOf(sync_i), sync_i, o)>>)
       ELSE /\ sync_results' = sync_results \o Collect(<<NoClient(sync_i)>>)
            /\ UNCHANGED api_outcome
    /\ pc' = AfterSyncBatch
    /\ UNCHANGED <<sync_i, sync_progress, sync_sleeps, chunkVars, parseVars, configVars, limiterVars,
                   asyncVars>>

\* "time.sleep(self.rate_limit_delay)", then the next iteration
SyncSleep ==
    /\ pc = "sync_sleep"
    /\ sync_sleeps' = sync_sleeps \cup {sync_i}
    /\ sync_i' = sync_i + 1
    /\ pc' = "sync_progress"
    /\ UNCHANGED <<sync_progress, sync_results, chunkVars, parseVars, configVars, limiterVars,
                   asyncVars, api_outcome>>

\* "return all_results"
SyncReturn ==
    /\ pc = "sync_return"
    /\ pc' = "sync_returned"
    /\ UNCHANGED <<syncVars, chunkVars, parseVars, configVars, limiterVars, asyncVars, api_outcome>>

(***************************************************************************)
(* APIRateLimiter: the model table, the rate window, the model selection.  *)
(*                                                                         *)
(* Time is counted in ticks of 1 / TicksPerSecond seconds. request_times   *)
(* is kept as the number of entries per timestamp: the code reads the list *)
(* only through len(), min() and a filter, none of which depends on the    *)
(* order of the entries.                                                   *)
(***************************************************************************)
TicksPerSecond == 2      \* resolution of the clock
MaxClockSteps == 3       \* how many times the clock advances in SpecWindow
MaxRequests == 1         \* requests recorded by RecordRequest in SpecWindow

WindowSeconds == 60      \* timedelta(minutes=1)
WindowTicks == WindowSeconds * TicksPerSecond

Models == {"gpt-4", "gpt-4o-mini", "gpt-3.5-turbo"}

\* self.models; "none" stands for fallback_model=None. The costs per 1000
\* tokens are in units of 0.00001 dollar.
ModelTable ==
    [m \in Models |->
        CASE m = "gpt-4" ->
               [max_tokens |-> 8192, cost_per_1k_input |-> 3000,
                cost_per_1k_output |-> 6000, rate_limit_rpm |-> 60,
                fallback_model |-> "gpt-4o-mini"]
          [] m = "gpt-4o-mini" ->
               [max_tokens |-> 16384, cost_per_1k_input |-> 15,
                cost_per_1k_output |-> 60, rate_limit_rpm |-> 500,
                fallback_model |-> "gpt-3.5-turbo"]
          [] m = "gpt-3.5-turbo" ->
               [max_tokens |-> 4096, cost_per_1k_input |-> 150,
                cost_per_1k_output |-> 200, rate_limit_rpm |-> 3500,
                fallback_model |-> "none"]]

\* self.model_preference
ModelPreference == <<"gpt-4o-mini", "gpt-3.5-turbo", "gpt-4">>

\* the default model of check_rate_limit, estimate_cost and select_best_model
DefaultModel == "gpt-4o-mini"

\* self.models.get(model, self.models["gpt-4o-mini"])
ConfigOf(model) ==
    IF model \in Models THEN ModelTable[model] ELSE ModelTable[DefaultModel]

\* A list of timestamps as the number of entries per timestamp.
NoTimes == <<>>

RECURSIVE SumOver(_, _)
SumOver(bag, S) ==
    IF S = {} THEN 0
    ELSE LET x == CHOOSE x \in S : TRUE IN bag[x] + SumOver(bag, S \ {x})

\* len(times)
CountOf(times) == SumOver(times, DOMAIN times)

\* times.append(t), c times
AddTimes(times, t, c) ==
    IF c = 0 THEN times
    ELSE [x \in DOMAIN times \cup {t} |->
             (IF x \in DOMAIN times THEN times[x] ELSE 0) + (IF x = t THEN c ELSE 0)]

\* "Clean old request times (older than 1 minute)": [t for t in ... if t > cutoff_time]
CleanTimes(times, t) ==
    [x \in {y \in DOMAIN times : y > t - WindowTicks} |-> times[x]]

\* Mutant: the newest timestamp is taken.
NewestOf(times) == CHOOSE x \in DOMAIN times : \A y \in DOMAIN times : x >= y

\* min(self.request_times)
OldestOf(times) == CHOOSE x \in DOMAIN times : \A y \in DOMAIN times : x <= y

\* Mutant: a request is allowed up to and including the limit.
CanMakeRequestInclusive(count, rpm) == count <= rpm

\* "can_make_request = requests_in_last_minute < config.rate_limit_rpm"
CanMakeRequest(count, rpm) == count < rpm

\* check_rate_limit(model) at time t: the pair it returns and the cleaned
\* request_times it leaves. The wait is int(seconds until the oldest entry is
\* one minute old), a positive number of ticks divided down to seconds.
CheckRateLimit(model, times, t) ==
    LET kept == CleanTimes(times, t)
        can_make_request == CanMakeRequest(CountOf(kept), ConfigOf(model).rate_limit_rpm)
        wait_time == IF ~can_make_request /\ kept # NoTimes
                     THEN (OldestOf(kept) + WindowTicks - t) \div TicksPerSecond
                     ELSE 0
    IN [allowed |-> can_make_request, wait_time |-> wait_time, times |-> kept]

\* Mutant: the 20% buffer is left out of the token test.
FitsTokensNoBuffer(estimated_tokens, model) ==
    estimated_tokens <= ModelTable[model].max_tokens

\* "estimated_tokens <= config.max_tokens * 0.8", times ten
FitsTokens(estimated_tokens, model) ==
    estimated_tokens * 10 <= ModelTable[model].max_tokens * 8

\* The first loop of select_best_model over self.model_preference from
\* position k: the first model that fits and passes the rate check, "none" if
\* the loop ends without returning.
RECURSIVE FirstAvailable(_, _, _, _)
FirstAvailable(k, estimated_tokens, times, t) ==
    IF k > Len(ModelPreference) THEN "none"
    ELSE LET model_name == ModelPreference[k] IN
         IF /\ FitsTokens(estimated_tokens, model_name)
            /\ CheckRateLimit(model_name, times, t).allowed
         THEN model_name
         ELSE FirstAvailable(k + 1, estimated_tokens, times, t)

\* "if wait_time < shortest_wait", shortest_wait being infinite at first
ShorterWait(wait_time, best) == best.model = "none" \/ wait_time < best.wait

\* The second loop of select_best_model from position k: best_model and
\* shortest_wait.
RECURSIVE ShortestWait(_, _, _, _, _)
ShortestWait(k, best, estimated_tokens, times, t) ==
    IF k > Len(ModelPreference) THEN best
    ELSE LET model_name == ModelPreference[k]
             wait_time == CheckRateLimit(model_name, times, t).wait_time
         IN IF FitsTokens(estimated_tokens, model_name) /\ ShorterWait(wait_time, best)
            THEN ShortestWait(k + 1, [model |-> model_name, wait |-> wait_time],
                              estimated_tokens, times, t)
            ELSE ShortestWait(k + 1, best, estimated_tokens, times, t)

\* Mutant: the preferred model is taken without the rate check.
PreferredUsableUnchecked(estimated_tokens, preferred_model, times, t) ==
    /\ preferred_model \in Models
    /\ FitsTokens(estimated_tokens, preferred_model)

\* "if preferred_model and preferred_model in self.models" and the two tests
\* under it; "none" stands for preferred_model=None
PreferredUsable(estimated_tokens, preferred_model, times, t) ==
    /\ preferred_model \in Models
    /\ FitsTokens(estimated_tokens, preferred_model)
    /\ CheckRateLimit(preferred_model, times, t).allowed

\* select_best_model(estimated_tokens, preferred_model) at time t. The call
\* takes no time: every check_rate_limit in it reads the same clock value.
SelectBestModel(estimated_tokens, preferred_model, times, t) ==
    IF PreferredUsable(estimated_tokens, preferred_model, times, t)
    THEN preferred_model
    ELSE LET first == FirstAvailable(1, estimated_tokens, times, t) IN
         IF first # "none" THEN first
         ELSE LET best == ShortestWait(1, [model |-> "none", wait |-> 0],
                                       estimated_tokens, times, t)
              IN IF best.model # "none" THEN best.model ELSE DefaultModel

\* request_times after select_best_model: cleaned as soon as one
\* check_rate_limit has run, which takes a model that fits the estimate.
TimesAfterSelect(estimated_tokens, times, t) ==
    IF \E m \in Models : FitsTokens(estimated_tokens, m)
    THEN CleanTimes(times, t) ELSE times

(***************************************************************************)
(* The usage tracker.                                                      *)
(***************************************************************************)

\* APIUsageStats(session_id=...); model_usage maps the models used so far to
\* their counts, total_cost is in units of 0.00000001 dollar.
NewUsageStats(session_id) ==
    [session_id |-> session_id, total_requests |-> 0, total_tokens |-> 0,
     total_cost |-> 0, rate_limit_hits |-> 0, model_usage |-> <<>>]

\* Mutant: the input tokens are priced at the output rate.
EstimateCostOutputRate(model, input_tokens, output_tokens) ==
    (input_tokens + output_tokens) * ConfigOf(model).cost_per_1k_output

\* estimate_cost(model, input_tokens, output_tokens), times 1000 to stay in
\* whole numbers: (i / 1000) * cost_per_1k_input + (o / 1000) * cost_per_1k_output
EstimateCost(model, input_tokens, output_tokens) ==
    LET config == ConfigOf(model) IN
    input_tokens * config.cost_per_1k_input + output_tokens * config.cost_per_1k_output

\* The usage counters of a response; NoUsage stands for a response without
\* usage.
NoUsage == [prompt_tokens |-> 0, completion_tokens |-> 0, total_tokens |-> 0, present |-> FALSE]
Usage(i, o) == [prompt_tokens |-> i, completion_tokens |-> o, total_tokens |-> i + o,
                present |-> TRUE]
UsageChoices == {NoUsage, Usage(1000, 500)}

\* _update_usage_stats(model, response)
UpdateUsageStats(stats, model, usage) ==
    [stats EXCEPT
        !.total_requests = @ + 1,
        !.model_usage = [m \in DOMAIN @ \cup {model} |->
                            (IF m \in DOMAIN @ THEN @[m] ELSE 0) + (IF m = model THEN 1 ELSE 0)],
        !.total_tokens = IF usage.present THEN @ + usage.total_tokens ELSE @,
        !.total_cost = IF usage.present
                       THEN @ + EstimateCost(model, usage.prompt_tokens,
                                             usage.completion_tokens)
                       ELSE @]

(***************************************************************************)
(* Initial values of the variables a specification does not use.           *)
(***************************************************************************)
IdleChunk == content_items = <<>> /\ chunks = <<>>
IdleParse == response_text = <<>> /\ expected_count = 0 /\ enhanced_items = <<>>
IdleConfig == client = FALSE /\ async_client = FALSE /\ max_concurrent = 1
IdleAsync ==
    /\ sem_value = 0
    /\ task_pc = <<>>
    /\ batch_results = <<>>
    /\ completed = 0
    /\ progress = <<>>
    /\ cb_calls = <<>>
    /\ all_results = <<>>
    /\ api_outcome = <<>>
    /\ dispatched = <<>>
    /\ overtaken = FALSE
\* The constructor sets both clients or leaves both None (it leaves them None
\* when the key lookup fails, which it does in this source: os is used without
\* being imported); a caller or a test may assign them afterwards.
InitConfig ==
    /\ async_client \in BOOLEAN
    /\ client = async_client
    /\ max_concurrent \in 1..MaxConc
\* The limiter as __init__ leaves it, no call made.
NoReturn == [op |-> "none"]
NoDenial == [op |-> "none"]
IdleLimiter ==
    /\ now = 0
    /\ clock_steps = 0
    /\ request_times = NoTimes
    /\ issued = [m \in Models |-> NoTimes]
    /\ usage_stats = NewUsageStats("default")
    /\ ret = NoReturn
    /\ calls = <<>>
    /\ max_retries = 0
    /\ last_denial = NoDenial
    /\ requests = 0
    /\ limiter_clients = TRUE
    /\ successes = 0
    /\ usage_ops = 0
IdleSync ==
    /\ sync_i = 0
    /\ sync_progress = <<>>
    /\ sync_results = <<>>
    /\ sync_sleeps = {}

(***************************************************************************)
(* SpecChunk: create_chunks on every item list of at most MaxItems items.  *)
(***************************************************************************)
ItemLists(maxLen) ==
    UNION {{[k \in 1..n |-> Item(k, w[k])] : w \in [1..n -> WordChoices]} : n \in 0..maxLen}

InitChunk ==
    /\ pc = "create_chunks"
    /\ content_items \in ItemLists(MaxItems)
    /\ chunks = <<>>
    /\ IdleParse /\ IdleConfig /\ IdleAsync /\ IdleSync /\ IdleLimiter

CreateChunksCall ==
    /\ pc = "create_chunks"
    /\ chunks' = CreateChunks(content_items)
    /\ pc' = "chunks_returned"
    /\ UNCHANGED <<content_items, parseVars, configVars, limiterVars, asyncVars, api_outcome, syncVars>>

NextChunk == CreateChunksCall

SpecChunk == InitChunk /\ [][NextChunk]_vars

(***************************************************************************)
(* SpecParse: _parse_batch_response on every text of at most MaxRespLen    *)
(* tokens and every expected_count up to MaxExpected.                      *)
(***************************************************************************)
Texts(maxLen) == UNION {[1..n -> Tokens] : n \in 0..maxLen}

InitParse ==
    /\ pc = "parse"
    /\ response_text \in Texts(MaxRespLen)
    /\ expected_count \in 0..MaxExpected
    /\ enhanced_items = <<>>
    /\ IdleChunk /\ IdleConfig /\ IdleAsync /\ IdleSync /\ IdleLimiter

ParseCall ==
    /\ pc = "parse"
    /\ enhanced_items' = ParseBatchResponse(response_text, expected_count)
    /\ pc' = "parse_returned"
    /\ UNCHANGED <<response_text, expected_count, chunkVars, configVars, limiterVars, asyncVars,
                   api_outcome, syncVars>>

NextParse == ParseCall

SpecParse == InitParse /\ [][NextParse]_vars

(***************************************************************************)
(* Spec: process_all_batches_async on every list of at most MaxBatches     *)
(* batches of 1..MaxBatchLen items.                                        *)
(***************************************************************************)
RECURSIVE BatchesOfLens(_, _)
BatchesOfLens(lens, firstId) ==
    IF lens = <<>> THEN <<>>
    ELSE <<[k \in 1..Head(lens) |-> Item(firstId + k - 1, 100)]>>
         \o BatchesOfLens(Tail(lens), firstId + Head(lens))

BatchLists ==
    UNION {{BatchesOfLens(lens, 1) : lens \in [1..n -> 1..MaxBatchLen]} : n \in 0..MaxBatches}

Init ==
    /\ pc = "async_entry"
    /\ content_items = <<>>
    /\ chunks \in BatchLists
    /\ InitConfig
    /\ IdleParse /\ IdleAsync /\ IdleSync /\ IdleLimiter

AsyncNext ==
    \/ AsyncBegin
    \/ \E b \in BatchIds : TaskStart(b)
    \/ \E b \in BatchIds : TaskWake(b)
    \/ \E b \in BatchIds : SleepDone(b)
    \/ \E b \in BatchIds : CallReturn(b)
    \/ AsyncReturn

Next == AsyncNext

Spec == Init /\ [][Next]_vars

(***************************************************************************)
(* SpecFair: process_all_batches_async on batches of one item, with the    *)
(* event loop's scheduling: a task that can run is run, a sleep ends, and  *)
(* gather returns once all its tasks have. Nothing is assumed of the API:  *)
(* a batch call may stay pending for ever.                                 *)
(***************************************************************************)
SingleItemBatchLists == {BatchesOfLens([k \in 1..n |-> 1], 1) : n \in 0..MaxBatches}

InitFair ==
    /\ pc = "async_entry"
    /\ content_items = <<>>
    /\ chunks \in SingleItemBatchLists
    /\ InitConfig
    /\ IdleParse /\ IdleAsync /\ IdleSync /\ IdleLimiter

EventLoop ==
    /\ WF_vars(AsyncBegin)
    /\ WF_vars(\E b \in BatchIds : TaskStart(b))
    /\ WF_vars(\E b \in BatchIds : TaskWake(b))
    /\ \A b \in 0..(MaxBatches - 1) : WF_vars(b \in BatchIds /\ SleepDone(b))
    /\ WF_vars(AsyncReturn)

SpecFair == InitFair /\ [][Next]_vars /\ EventLoop

(***************************************************************************)
(* SpecParity: process_large_batch_sync on an item list, then              *)
(* process_all_batches_async on the batches it chunked, the API answering  *)
(* each batch as it did the first time.                                    *)
(***************************************************************************)
UniformItemLists(maxLen) ==
    {[k \in 1..n |-> Item(k, w)] : n \in 0..maxLen, w \in WordChoices}

InitParity ==
    /\ pc = "sync_entry"
    /\ content_items \in UniformItemLists(MaxSyncItems)
    /\ chunks = <<>>
    /\ InitConfig
    /\ IdleParse /\ IdleAsync /\ IdleSync /\ IdleLimiter

SyncNext ==
    \/ SyncBegin
    \/ SyncProgress
    \/ SyncCall
    \/ SyncSleep
    \/ SyncReturn

NextParity == SyncNext \/ AsyncNext

SpecParity == InitParity /\ [][NextParity]_vars

(***************************************************************************)
(* SpecWindow: the rate window of one APIRateLimiter. The clock advances,  *)
(* check_rate_limit is called for any model name, and a request is         *)
(* recorded the way make_api_call_with_retry does it: after a check that   *)
(* allowed it, with nothing in between.                                    *)
(***************************************************************************)

\* The model names check_rate_limit is called with; the last one is not in
\* self.models.
CheckedModels == Models \cup {"unknown-model"}

\* Advances of the clock: one tick, or one tick less than the window.
TickChoices == {1, WindowTicks - 1}

\* The requests of the last minute when the specification starts: none, or
\* all for one model h, issued one at tick 0 and the others at tick 1, two
\* less than h's limit (each was allowed when it was recorded).
HistoryOf(h) == AddTimes(AddTimes(NoTimes, 0, 1), 1, ModelTable[h].rate_limit_rpm - 2)
Histories ==
    {[m \in Models |-> NoTimes]}
    \cup {[m \in Models |-> IF m = h THEN HistoryOf(h) ELSE NoTimes] : h \in Models}

\* All the requests of a history, whatever their model, as request_times holds them.
RECURSIVE MergeTimes(_, _)
MergeTimes(byModel, S) ==
    IF S = {} THEN NoTimes
    ELSE LET m == CHOOSE m \in S : TRUE
             rest == MergeTimes(byModel, S \ {m})
         IN [x \in DOMAIN rest \cup DOMAIN byModel[m] |->
                (IF x \in DOMAIN rest THEN rest[x] ELSE 0)
                + (IF x \in DOMAIN byModel[m] THEN byModel[m][x] ELSE 0)]

\* Time passes.
Tick ==
    /\ clock_steps < MaxClockSteps
    /\ \E d \in TickChoices : now' = now + d
    /\ clock_steps' = clock_steps + 1
    /\ UNCHANGED <<pc, chunkVars, parseVars, asyncVars, api_outcome, syncVars, configVars,
                   request_times, issued, usage_stats, ret, calls, max_retries,
                   last_denial, requests, limiter_clients, successes, usage_ops>>

\* check_rate_limit(model)
CheckRateLimitCall(model) ==
    LET r == CheckRateLimit(model, request_times, now) IN
    /\ request_times' = r.times
    /\ ret' = [op |-> "check_rate_limit", model |-> model, allowed |-> r.allowed,
               wait_time |-> r.wait_time, at |-> now,
               times |-> request_times, issued |-> issued]
    /\ last_denial' = IF r.allowed THEN last_denial
                      ELSE [op |-> "check_rate_limit", model |-> model,
                            times |-> r.times, at |-> now]
    /\ UNCHANGED <<pc, chunkVars, parseVars, asyncVars, api_outcome, syncVars, configVars,
                   now, clock_steps, issued, usage_stats, calls, max_retries, requests,
                   limiter_clients, successes, usage_ops>>

\* "can_make_request, wait_time = self.check_rate_limit(current_model)" and
\* "self.request_times.append(datetime.now())" of one attempt that is allowed
RecordRequest(model) ==
    LET r == CheckRateLimit(model, request_times, now) IN
    /\ requests < MaxRequests
    /\ r.allowed
    /\ request_times' = AddTimes(r.times, now, 1)
    /\ issued' = [issued EXCEPT ![model] = AddTimes(@, now, 1)]
    /\ last_denial' = NoDenial
    /\ requests' = requests + 1
    /\ UNCHANGED <<pc, chunkVars, parseVars, asyncVars, api_outcome, syncVars, configVars,
                   now, clock_steps, usage_stats, ret, calls, max_retries,
                   limiter_clients, successes, usage_ops>>

InitWindow ==
    /\ pc = "window"
    /\ IdleChunk /\ IdleParse /\ IdleConfig /\ IdleAsync /\ IdleSync
    /\ now = 1
    /\ clock_steps = 0
    /\ issued \in Histories
    /\ request_times = MergeTimes(issued, Models)
    /\ usage_stats = NewUsageStats("default")
    /\ ret = NoReturn
    /\ calls = <<>>
    /\ max_retries = 0
    /\ last_denial = NoDenial
    /\ requests = 0
    /\ limiter_clients = TRUE
    /\ successes = 0
    /\ usage_ops = 0

NextWindow ==
    \/ Tick
    \/ \E model \in CheckedModels : CheckRateLimitCall(model)
    \/ \E model \in Models : RecordRequest(model)

SpecWindow == InitWindow /\ [][NextWindow]_vars

(***************************************************************************)
(* SpecSelect: select_best_model, called with any estimate and preferred   *)
(* model on any state of the rate window.                                  *)
(***************************************************************************)

\* Token estimates on both sides of 80% of each max_tokens (3276.8, 6553.6,
\* 13107.2), and one between 80% and 100% of the smallest.
EstimateChoices == {1000, 3277, 4000, 6554, 13107, 13108}

\* preferred_model: None, a configured model or another name
PreferredChoices == {"none"} \cup CheckedModels

\* A window that model h has just filled: one request at tick 0, the others
\* at tick 1, as many as h's limit.
FullHistoryOf(h) == AddTimes(HistoryOf(h), 1, 1)
SelectHistories ==
    Histories
    \cup {[m \in Models |-> IF m = h THEN FullHistoryOf(h) ELSE NoTimes] : h \in Models}

\* select_best_model(estimated_tokens, preferred_model)
SelectBestModelCall(estimated_tokens, preferred_model) ==
    /\ request_times' = TimesAfterSelect(estimated_tokens, request_times, now)
    /\ ret' = [op |-> "select_best_model", estimated_tokens |-> estimated_tokens,
               preferred_model |-> preferred_model,
               model |-> SelectBestModel(estimated_tokens, preferred_model,
                                         request_times, now),
               at |-> now, times |-> request_times, issued |-> issued]
    /\ UNCHANGED <<pc, chunkVars, parseVars, asyncVars, api_outcome, syncVars, configVars,
                   now, clock_steps, issued, usage_stats, calls, max_retries,
                   last_denial, requests, limiter_clients, successes, usage_ops>>

InitSelect ==
    /\ pc = "select"
    /\ IdleChunk /\ IdleParse /\ IdleConfig /\ IdleAsync /\ IdleSync
    /\ now = 1
    /\ clock_steps = 0
    /\ issued \in SelectHistories
    /\ request_times = MergeTimes(issued, Models)
    /\ usage_stats = NewUsageStats("default")
    /\ ret = NoReturn
    /\ calls = <<>>
    /\ max_retries = 0
    /\ last_denial = NoDenial
    /\ requests = 0
    /\ limiter_clients = TRUE
    /\ successes = 0
    /\ usage_ops = 0

NextSelect ==
    \/ Tick
    \/ \E estimated_tokens \in EstimateChoices, preferred_model \in PreferredChoices :
          SelectBestModelCall(estimated_tokens, preferred_model)

SpecSelect == InitSelect /\ [][NextSelect]_vars

(***************************************************************************)
(* SpecCall: make_api_call_with_retry and make_api_call_sync on one        *)
(* APIRateLimiter. A call runs without interruption from one suspension    *)
(* point to the next; it is suspended while it sleeps and while it waits   *)
(* for the API. A synchronous call sleeps and waits without giving way:    *)
(* no other call runs until it has ended.                                  *)
(***************************************************************************)

DefaultMaxRetries == 3   \* max_retries: int = 3
MaxApiRequests == 3      \* API requests made by all the calls of a run together

CallIds == {1, 2}
CallModes == {"async", "sync"}

\* What the API call ends with: a response, openai.RateLimitError, an
\* openai.APIError whose text holds "maximum context length", or another
\* exception (an openai.APIError or not: the two clauses do the same).
CallOutcomes == {"ok", "rate_limit", "context_length", "error"}

\* How long the API takes to answer, in ticks.
LatencyChoices == {1}

\* estimate_tokens(total_text) of the calls' messages
CallEstimates == {1000, 4000}

NoError == [kind |-> "none"]
IdleCall ==
    [pc |-> "idle", mode |-> "async", selected_model |-> "none", attempt |-> 0,
     wake |-> 0, last_exception |-> "None", api_requests |-> 0, denials |-> 0,
     rate_limit_errors |-> 0, last_error |-> NoError, result |-> NoReturn]

\* The API requests the calls have made so far.
RECURSIVE ApiRequestsOf(_, _)
ApiRequestsOf(cs, S) ==
    IF S = {} THEN 0
    ELSE LET c == CHOOSE c \in S : TRUE IN cs[c].api_requests + ApiRequestsOf(cs, S \ {c})
WithinBudget(cs) == ApiRequestsOf(cs, CallIds) <= MaxApiRequests

Running(call) == call.pc \in {"sleeping", "calling"}
Ended(call) == call.pc \in {"returned", "raised"}

\* A call may take a step unless a synchronous call of another id is under way.
MayRun(c) == \A d \in CallIds \ {c} : ~(calls[d].mode = "sync" /\ Running(calls[d]))

\* The calls are made in the order of their ids.
MayStart(c) == calls[c].pc = "idle" /\ \A d \in CallIds : d < c => calls[d].pc # "idle"

\* Mutant: the request is made whatever the rate check said.
MayIssueAlways(check) == TRUE

\* "if not can_request: ... continue"
MayIssue(check) == check.allowed

\* Mutant: the model is kept after a rate-limit error.
FallbackOfNever(model) == model

\* Mutant: after the last model of the chain the first one is tried again.
FallbackOfCycling(model) ==
    IF model \notin Models THEN model
    ELSE IF ModelTable[model].fallback_model # "none" THEN ModelTable[model].fallback_model
    ELSE "gpt-4"

\* "config = self.models.get(selected_model); if config and config.fallback_model:
\* selected_model = config.fallback_model"
FallbackOf(model) ==
    IF model \in Models /\ ModelTable[model].fallback_model # "none"
    THEN ModelTable[model].fallback_model
    ELSE model

\* Mutant: gpt-4 steps down to gpt-3.5-turbo at once.
SmallerModelSkipping(model) ==
    IF model \in {"gpt-4", "gpt-4o-mini"} THEN "gpt-3.5-turbo" ELSE "none"

\* The model tried after a context-length error, "none" where the code has
\* "raise e  # No smaller model available"
SmallerModel(model) ==
    CASE model = "gpt-4" -> "gpt-4o-mini"
      [] model = "gpt-4o-mini" -> "gpt-3.5-turbo"
      [] OTHER -> "none"

\* Mutant: an API error other than the two special ones is raised again.
HandlingRaising(outcome, model) ==
    CASE outcome = "rate_limit" -> "fallback_and_backoff"
      [] outcome = "context_length" /\ SmallerModel(model) # "none" -> "step_down"
      [] outcome = "context_length" -> "raise"
      [] outcome = "error" -> "raise"
      [] OTHER -> "backoff"

\* The except clause that handles an outcome of the API call.
Handling(outcome, model) ==
    CASE outcome = "rate_limit" -> "fallback_and_backoff"
      [] outcome = "context_length" /\ SmallerModel(model) # "none" -> "step_down"
      [] outcome = "context_length" -> "raise"
      [] OTHER -> "backoff"

\* Mutant: every failed attempt is counted as a request.
StatsAfterErrorCounting(stats, outcome) ==
    [stats EXCEPT !.total_requests = @ + 1,
                  !.rate_limit_hits = IF outcome = "rate_limit" THEN @ + 1 ELSE @]

\* What the except clauses do to usage_stats: "self.usage_stats.rate_limit_hits
\* += 1" for openai.RateLimitError, nothing for the others.
StatsAfterError(stats, outcome) ==
    IF outcome = "rate_limit" THEN [stats EXCEPT !.rate_limit_hits = @ + 1] ELSE stats

\* 2 ** attempt
RECURSIVE Pow2(_)
Pow2(n) == IF n = 0 THEN 1 ELSE 2 * Pow2(n - 1)

\* The backoff sleeps, in ticks: "(2 ** attempt) * 60" seconds after a
\* rate-limit error, "2 ** attempt" seconds after another error.
RateLimitBackoff(attempt) == Pow2(attempt) * WindowSeconds * TicksPerSecond
ErrorBackoff(attempt) == Pow2(attempt) * TicksPerSecond

\* The dictionary returned when the loop has ended: "All retries failed".
FailureResult(call) ==
    [response |-> "None", model_used |-> call.selected_model, attempt |-> max_retries,
     success |-> FALSE, error |-> call.last_exception]

\* The dictionary returned after a response.
SuccessResult(call, usage) ==
    [response |-> usage, model_used |-> call.selected_model,
     attempt |-> call.attempt + 1, success |-> TRUE]

\* The first attempt after an API error is noted in the call's last_error.
NoteRetry(call, t) ==
    IF call.last_error.kind # "none" /\ call.last_error.retried_at < 0
    THEN [call EXCEPT !.last_error.retried_at = t,
                      !.last_error.retried_model = call.selected_model]
    ELSE call

\* The loop "for attempt in range(max_retries)" from the top of iteration
\* call.attempt at time t, up to the next suspension point or the return:
\* the call, request_times and the requests issued, as they are then.
EnterLoop(call, times, byModel, t) ==
    IF call.attempt >= max_retries
    THEN [call |-> [call EXCEPT !.pc = "returned", !.result = FailureResult(call)],
          times |-> times, issued |-> byModel]
    ELSE LET check == CheckRateLimit(call.selected_model, times, t)
             noted == NoteRetry(call, t)
         IN IF ~MayIssue(check)
            THEN [call |-> [noted EXCEPT !.pc = "sleeping",
                                         !.wake = t + (check.wait_time + 1) * TicksPerSecond,
                                         !.attempt = @ + 1, !.denials = @ + 1],
                  times |-> check.times, issued |-> byModel]
            ELSE [call |-> [noted EXCEPT !.pc = "calling", !.api_requests = @ + 1],
                  times |-> AddTimes(check.times, t, 1),
                  issued |-> [byModel EXCEPT ![call.selected_model] = AddTimes(@, t, 1)]]

\* The call is made without a client: "raise Exception("OpenAI client not available")"
StartWithoutClient(c) ==
    /\ MayStart(c)
    /\ MayRun(c)
    /\ ~limiter_clients
    /\ \E mode \in CallModes :
          calls' = [calls EXCEPT ![c] = [@ EXCEPT !.pc = "raised", !.mode = mode,
                                                   !.last_exception = "no_client"]]
    /\ UNCHANGED <<pc, chunkVars, parseVars, asyncVars, api_outcome, syncVars, configVars,
                   now, clock_steps, request_times, issued, usage_stats, ret, max_retries,
                   last_denial, requests, limiter_clients, successes, usage_ops>>

\* The call is made: the estimate, select_best_model and the loop up to its
\* first suspension point.
StartCall(c) ==
    /\ MayStart(c)
    /\ MayRun(c)
    /\ limiter_clients
    /\ \E mode \in CallModes, estimated_tokens \in CallEstimates,
          preferred_model \in PreferredChoices :
          LET selected == SelectBestModel(estimated_tokens, preferred_model,
                                          request_times, now)
              after == EnterLoop([calls[c] EXCEPT !.mode = mode,
                                                  !.selected_model = selected],
                                 TimesAfterSelect(estimated_tokens, request_times, now),
                                 issued, now)
          IN /\ calls' = [calls EXCEPT ![c] = after.call]
             /\ WithinBudget(calls')
             /\ request_times' = after.times
             /\ issued' = after.issued
    /\ UNCHANGED <<pc, chunkVars, parseVars, asyncVars, api_outcome, syncVars, configVars,
                   now, clock_steps, usage_stats, ret, max_retries,
                   last_denial, requests, limiter_clients, successes, usage_ops>>

\* The API answers with a response: _update_usage_stats and the return.
ApiResponds(c) ==
    /\ calls[c].pc = "calling"
    /\ MayRun(c)
    /\ \E d \in LatencyChoices : now' = now + d
    /\ \E usage \in UsageChoices :
          /\ usage_stats' = UpdateUsageStats(usage_stats, calls[c].selected_model, usage)
          /\ calls' = [calls EXCEPT ![c] = [@ EXCEPT !.pc = "returned",
                                                     !.result = SuccessResult(calls[c], usage)]]
    /\ UNCHANGED <<pc, chunkVars, parseVars, asyncVars, api_outcome, syncVars, configVars,
                   clock_steps, request_times, issued, ret, max_retries,
                   last_denial, requests, limiter_clients, successes, usage_ops>>

\* The API call raises: the except clause, and after a step down the loop up
\* to its next suspension point.
ApiRaises(c) ==
    /\ calls[c].pc = "calling"
    /\ MayRun(c)
    /\ \E d \in LatencyChoices, outcome \in CallOutcomes \ {"ok"} :
          LET t == now + d
              call == calls[c]
              failed == [call EXCEPT
                            !.last_error = [kind |-> outcome, model |-> call.selected_model,
                                            attempt |-> call.attempt, at |-> t,
                                            retried_at |-> -1, retried_model |-> "none"],
                            !.rate_limit_errors =
                                IF outcome = "rate_limit" THEN @ + 1 ELSE @]
              handling == Handling(outcome, call.selected_model)
              after ==
                  CASE handling = "fallback_and_backoff" ->
                         [call |-> [failed EXCEPT
                                       !.selected_model = FallbackOf(call.selected_model),
                                       !.pc = "sleeping",
                                       !.wake = t + RateLimitBackoff(call.attempt),
                                       !.last_exception = outcome,
                                       !.attempt = @ + 1],
                          times |-> request_times, issued |-> issued]
                    [] handling = "step_down" ->
                         EnterLoop([failed EXCEPT
                                       !.selected_model = SmallerModel(call.selected_model),
                                       !.attempt = @ + 1],
                                   request_times, issued, t)
                    [] handling = "raise" ->
                         [call |-> [failed EXCEPT !.pc = "raised",
                                                  !.last_exception = outcome],
                          times |-> request_times, issued |-> issued]
                    [] OTHER ->
                         [call |-> [failed EXCEPT
                                       !.pc = "sleeping",
                                       !.wake = t + ErrorBackoff(call.attempt),
                                       !.last_exception = outcome,
                                       !.attempt = @ + 1],
                          times |-> request_times, issued |-> issued]
          IN /\ now' = t
             /\ calls' = [calls EXCEPT ![c] = after.call]
             /\ WithinBudget(calls')
             /\ request_times' = after.times
             /\ issued' = after.issued
             /\ usage_stats' = StatsAfterError(usage_stats, outcome)
    /\ UNCHANGED <<pc, chunkVars, parseVars, asyncVars, api_outcome, syncVars, configVars,
                   clock_steps, ret, max_retries, last_denial, requests, limiter_clients, successes, usage_ops>>

\* The sleep of a call is over: the loop goes on.
WakeUp(c) ==
    /\ calls[c].pc = "sleeping"
    /\ MayRun(c)
    /\ now >= calls[c].wake
    /\ LET after == EnterLoop(calls[c], request_times, issued, now)
       IN /\ calls' = [calls EXCEPT ![c] = after.call]
          /\ WithinBudget(calls')
          /\ request_times' = after.times
          /\ issued' = after.issued
    /\ UNCHANGED <<pc, chunkVars, parseVars, asyncVars, api_outcome, syncVars, configVars,
                   now, clock_steps, usage_stats, ret, max_retries,
                   last_denial, requests, limiter_clients, successes, usage_ops>>

\* Time passes until the first sleeping call is due.
Sleepers == {c \in CallIds : calls[c].pc = "sleeping" /\ calls[c].wake > now}
PassTime ==
    /\ Sleepers # {}
    /\ \A c \in CallIds : calls[c].pc = "sleeping" => calls[c].wake > now
    /\ now' = calls[CHOOSE c \in Sleepers : \A d \in Sleepers : calls[c].wake <= calls[d].wake].wake
    /\ UNCHANGED <<pc, chunkVars, parseVars, asyncVars, api_outcome, syncVars, configVars,
                   clock_steps, request_times, issued, usage_stats, ret, calls, max_retries,
                   last_denial, requests, limiter_clients, successes, usage_ops>>

InitCall ==
    /\ pc = "calls"
    /\ IdleChunk /\ IdleParse /\ IdleConfig /\ IdleAsync /\ IdleSync
    /\ now = 1
    /\ clock_steps = 0
    /\ issued \in Histories
    /\ request_times = MergeTimes(issued, Models)
    /\ usage_stats = NewUsageStats("default")
    /\ ret = NoReturn
    /\ calls = [c \in CallIds |-> IdleCall]
    /\ max_retries \in 0..DefaultMaxRetries
    /\ last_denial = NoDenial
    /\ requests = 0
    /\ limiter_clients \in BOOLEAN
    /\ successes = 0
    /\ usage_ops = 0

NextCall ==
    \/ \E c \in CallIds : StartWithoutClient(c)
    \/ \E c \in CallIds : StartCall(c)
    \/ \E c \in CallIds : ApiResponds(c)
    \/ \E c \in CallIds : ApiRaises(c)
    \/ \E c \in CallIds : WakeUp(c)
    \/ PassTime

SpecCall == InitCall /\ [][NextCall]_vars

(***************************************************************************)
(* SpecUsage: the usage tracker. Successful calls are recorded on any      *)
(* model with any usage, attempts fail, and the statistics are reset from  *)
(* the dashboard, in any order.                                            *)
(***************************************************************************)

MaxUsageOps == 4         \* operations on the usage statistics in one run

\* st.session_state.get('session_id', 'default')
SessionIds == {"default", "session-1"}

\* The usage a recorded response reports: none, or the token counts, with a
\* total that is or is not the sum of the two others.
RecordedUsages ==
    {NoUsage, Usage(1000, 500),
     [prompt_tokens |-> 300, completion_tokens |-> 200, total_tokens |-> 520,
      present |-> TRUE]}

\* Mutant: the statistics are reset to those of the default session.
ResetStatsToDefault(stats) == NewUsageStats("default")

\* "self.usage_stats = APIUsageStats(session_id=self.usage_stats.session_id)"
ResetStats(stats) == NewUsageStats(stats.session_id)

\* What an operation leaves in ret: the operation before it, without its own
\* history.
Earlier == IF ret.op = "none" THEN ret ELSE [op |-> ret.op, before |-> ret.before]

\* _update_usage_stats(model, response) after a response of the API
RecordUsage(model, usage) ==
    /\ usage_ops < MaxUsageOps
    /\ usage_stats' = UpdateUsageStats(usage_stats, model, usage)
    /\ ret' = [op |-> "update_usage_stats", model |-> model, usage |-> usage,
               before |-> usage_stats, prev |-> Earlier]
    /\ successes' = successes + 1
    /\ usage_ops' = usage_ops + 1
    /\ UNCHANGED <<pc, chunkVars, parseVars, asyncVars, api_outcome, syncVars, configVars,
                   now, clock_steps, request_times, issued, calls, max_retries,
                   last_denial, requests, limiter_clients>>

\* An attempt fails: the except clause for its outcome.
FailedAttempt(outcome) ==
    /\ usage_ops < MaxUsageOps
    /\ usage_stats' = StatsAfterError(usage_stats, outcome)
    /\ ret' = [op |-> "failed_attempt", outcome |-> outcome,
               before |-> usage_stats, prev |-> Earlier]
    /\ usage_ops' = usage_ops + 1
    /\ UNCHANGED <<pc, chunkVars, parseVars, asyncVars, api_outcome, syncVars, configVars,
                   now, clock_steps, request_times, issued, calls, max_retries,
                   last_denial, requests, limiter_clients, successes>>

\* The button "Reset Usage Stats" of render_usage_dashboard
ResetUsage ==
    /\ usage_ops < MaxUsageOps
    /\ usage_stats' = ResetStats(usage_stats)
    /\ ret' = [op |-> "reset", before |-> usage_stats, prev |-> Earlier]
    /\ successes' = 0
    /\ usage_ops' = usage_ops + 1
    /\ UNCHANGED <<pc, chunkVars, parseVars, asyncVars, api_outcome, syncVars, configVars,
                   now, clock_steps, request_times, issued, calls, max_retries,
                   last_denial, requests, limiter_clients>>

InitUsage ==
    /\ pc = "usage"
    /\ IdleChunk /\ IdleParse /\ IdleConfig /\ IdleAsync /\ IdleSync
    /\ now = 0
    /\ clock_steps = 0
    /\ issued = [m \in Models |-> NoTimes]
    /\ request_times = NoTimes
    /\ \E session_id \in SessionIds : usage_stats = NewUsageStats(session_id)
    /\ ret = NoReturn
    /\ calls = <<>>
    /\ max_retries = 0
    /\ last_denial = NoDenial
    /\ requests = 0
    /\ limiter_clients = TRUE
    /\ successes = 0
    /\ usage_ops = 0

NextUsage ==
    \/ \E model \in CheckedModels, usage \in RecordedUsages : RecordUsage(model, usage)
    \/ \E outcome \in CallOutcomes \ {"ok"} : FailedAttempt(outcome)
    \/ ResetUsage

SpecUsage == InitUsage /\ [][NextUsage]_vars

(***************************************************************************)
(* Properties of create_chunks (SpecChunk).                                *)
(***************************************************************************)
RECURSIVE Concat(_)
Concat(seqs) == IF seqs = <<>> THEN <<>> ELSE Head(seqs) \o Concat(Tail(seqs))

RECURSIVE SumLen(_)
SumLen(seqs) == IF seqs = <<>> THEN 0 ELSE Len(Head(seqs)) + SumLen(Tail(seqs))

RECURSIVE BatchTokens10(_)
BatchTokens10(batch) ==
    IF batch = <<>> THEN 0 ELSE Head(batch).words * 13 + BatchTokens10(Tail(batch))

ChunksReturned == pc = "chunks_returned"

\* C2: the lengths of the batches create_chunks returns sum to the number of
\* input items, and the batches concatenated in order are the input sequence
\* (nothing dropped, duplicated or reordered, an item above the budget on its
\* own included).
C2_ChunkCoverage ==
    ChunksReturned =>
        /\ SumLen(chunks) = Len(content_items)
        /\ Concat(chunks) = content_items

\* C2 witness: an input with an item above the budget on its own has been
\* split into several batches.
C2_Witness ==
    /\ ChunksReturned
    /\ Len(chunks) >= 2
    /\ \E k \in 1..Len(content_items) : content_items[k].words * 13 > 15000

\* C3: no returned batch is empty, an empty input gives no batch at all, and
\* every batch other than the last holds at least 5 items.
C3_MinimumBatchSize ==
    ChunksReturned =>
        /\ \A b \in 1..Len(chunks) : chunks[b] # <<>>
        /\ (content_items = <<>> => chunks = <<>>)
        /\ \A b \in 1..(Len(chunks) - 1) : Len(chunks[b]) >= 5

\* C3 witness: three batches, the last one shorter than 5 items.
C3_Witness ==
    /\ ChunksReturned
    /\ Len(chunks) = 3
    /\ Len(chunks[3]) < 5

\* C4 as stated: a final batch of fewer than 5 items is merged into the batch
\* before it, so an input that gives more than one batch gives no batch of
\* fewer than 5 items.
C4_TailMerged ==
    (ChunksReturned /\ Len(chunks) > 1) =>
        \A b \in 1..Len(chunks) : Len(chunks[b]) >= 5

\* C4 amended: nothing is merged. The items left for the final batch are
\* returned as a batch of their own, however few: when more than one batch is
\* returned every batch but the last holds at least 5 items and the last at
\* least 1, and no batch has grown past 5 items beyond the token budget (as a
\* batch that absorbed the tail would).
C4_TailKept ==
    ChunksReturned =>
        /\ Len(chunks) > 1 =>
              /\ \A b \in 1..(Len(chunks) - 1) : Len(chunks[b]) >= 5
              /\ Len(chunks[Len(chunks)]) >= 1
        /\ \A b \in 1..Len(chunks) :
              Len(chunks[b]) > 5 => BatchTokens10(chunks[b]) <= 15000

\* C4 witness: more than one batch, and the final one has fewer than 5 items.
C4_Witness ==
    /\ ChunksReturned
    /\ Len(chunks) > 1
    /\ Len(chunks[Len(chunks)]) < 5
    /\ Len(chunks[Len(chunks) - 1]) = 5

(***************************************************************************)
(* Properties of _parse_batch_response (SpecParse).                        *)
(***************************************************************************)
SepPositions(text, sep) == {k \in 1..Len(text) : text[k] = sep}

\* the n-th smallest element of a set of positions
NthPosition(S, n) == CHOOSE p \in S : Cardinality({q \in S : q < p}) = n - 1

\* The n-th piece of text delimited by sep, n in 1 .. (number of sep) + 1.
Piece(text, sep, n) ==
    LET S == SepPositions(text, sep)
        lo == IF n = 1 THEN 0 ELSE NthPosition(S, n - 1)
        hi == IF n = Cardinality(S) + 1 THEN Len(text) + 1 ELSE NthPosition(S, n)
    IN SubSeq(text, lo + 1, hi - 1)

IsBlank(s) == \A k \in 1..Len(s) : s[k] \in {"S", "B"}

MarkerCount(text) == Cardinality(SepPositions(text, "M"))
ParagraphCount(text) == Cardinality(SepPositions(text, "B")) + 1

\* the number of "Enhanced Item <k>:" segments: the pieces after the markers,
\* and the text before the first marker when it is not blank
SegmentCount(text) ==
    MarkerCount(text) + (IF IsBlank(Piece(text, "M", 1)) THEN 0 ELSE 1)

ParseReturned == pc = "parse_returned"

AlignedWithMarkers ==
    /\ Len(enhanced_items) = expected_count
    /\ \A i \in 1..expected_count :
          /\ enhanced_items[i] = Strip(Piece(response_text, "M", i + 1))
          /\ enhanced_items[i] # <<"FAILED">>

\* C6 as stated: a response with exactly N markers for an N-item batch is
\* parsed into the N texts that follow the markers, in marker order and without
\* placeholder, whatever text precedes the first marker.
C6_AlignedAnyPreamble ==
    (ParseReturned /\ MarkerCount(response_text) = expected_count) =>
        AlignedWithMarkers

\* C6 amended: a response with exactly N markers for an N-item batch, in which
\* nothing but whitespace precedes the first marker, is parsed into the N texts
\* that follow the markers (stripped), in marker order and without placeholder.
C6_AlignedBlankPreamble ==
    (/\ ParseReturned
     /\ MarkerCount(response_text) = expected_count
     /\ IsBlank(Piece(response_text, "M", 1))) =>
        AlignedWithMarkers

\* C6 witness: two markers for two items after a blank preamble, each followed
\* by text.
C6_Witness ==
    /\ ParseReturned
    /\ expected_count = 2
    /\ MarkerCount(response_text) = 2
    /\ IsBlank(Piece(response_text, "M", 1))
    /\ enhanced_items = <<<<"W">>, <<"W">>>>

\* C7: no entry _parse_batch_response returns is an empty string.
C7_NoEmptyEntry ==
    ParseReturned => \A k \in 1..Len(enhanced_items) : enhanced_items[k] # <<>>

(***************************************************************************)
(* Properties of process_all_batches_async (Spec).                         *)
(***************************************************************************)
AsyncReturned == pc = "async_returned"

\* Batch b succeeded: a client was there and the API answered with a response
\* that holds a text.
Succeeded(b) ==
    /\ async_client
    /\ b \in DOMAIN api_outcome
    /\ api_outcome[b].ok
    /\ api_outcome[b] # ApiNoContent

\* the positions of all_results that hold item it
PositionsOf(it) == {k \in 1..Len(all_results) : all_results[k].original = it}

RECURSIVE SuccessfulItems(_)
SuccessfulItems(b) ==
    IF b < 0 THEN 0
    ELSE (IF Succeeded(b) THEN Len(BatchOf(b)) ELSE 0) + SuccessfulItems(b - 1)

\* C1: the list process_all_batches_async returns holds every item of every
\* successful batch exactly once, under its own batch_id, and no item of a
\* failed batch; it holds nothing else.
C1_NoSilentDrop ==
    AsyncReturned =>
        /\ \A b \in BatchIds : \A i \in 1..Len(BatchOf(b)) :
              LET at == PositionsOf(BatchOf(b)[i]) IN
              IF Succeeded(b)
              THEN /\ Cardinality(at) = 1
                   /\ \A k \in at : all_results[k].batch_id = b
              ELSE at = {}
        /\ Len(all_results) = SuccessfulItems(Len(chunks) - 1)

\* C1 witness: three batches, the middle one failed, the others succeeded, the
\* last of them with two items.
C1_Witness ==
    /\ AsyncReturned
    /\ Len(chunks) = 3
    /\ Succeeded(0) /\ ~Succeeded(1) /\ Succeeded(2)
    /\ Len(BatchOf(2)) = 2
    /\ Len(all_results) = Len(BatchOf(0)) + 2

\* C8: the batches that hold the semaphore and have not finished (in the pacing
\* delay or in the API call) never number more than max_concurrent.
C8_ConcurrencyCap ==
    pc = "gather" => Cardinality(InFlight) <= max_concurrent

\* C8 witness: max_concurrent batches are in flight and another one waits for
\* the semaphore.
C8_Witness ==
    /\ pc = "gather"
    /\ max_concurrent = 2
    /\ Cardinality(InFlight) = 2
    /\ \E b \in BatchIds : task_pc[b] = "waiting"

\* C9: the progress callback is called exactly once per batch, once the batch
\* call has ended and whether it succeeded or failed, with total = T and with
\* completed = 1, 2, ..., T in this order.
C9_ProgressOncePerBatch ==
    pc \in {"gather", "async_returned"} =>
        LET done == {b \in BatchIds : task_pc[b] = "done"} IN
        /\ \A b \in BatchIds : cb_calls[b] = IF b \in done THEN 1 ELSE 0
        /\ \A b \in done : batch_results[b] # NoResult
        /\ Len(progress) = Cardinality(done)
        /\ \A k \in 1..Len(progress) : progress[k] = <<k, Len(chunks)>>
        /\ AsyncReturned => Len(progress) = Len(chunks)

\* C9 witness: of three batches the last two have ended before the first, one
\* of them failed, and the callback has been called twice.
C9_Witness ==
    /\ pc = "gather"
    /\ Len(chunks) = 3
    /\ task_pc[0] = "calling" /\ task_pc[1] = "done" /\ task_pc[2] = "done"
    /\ ~batch_results[1].success /\ batch_results[2].success
    /\ progress = <<<<1, 3>>, <<2, 3>>>>

(***************************************************************************)
(* Parity of the two modes (SpecParity).                                   *)
(***************************************************************************)

\* C10: on the same batches and the same API outcomes the sequential fallback
\* and the concurrent mode return the same results and call the progress
\* callback with the same sequence of (completed, total), ending at
\* completed = total.
C10_ModeParity ==
    AsyncReturned =>
        /\ all_results = sync_results
        /\ progress = sync_progress
        /\ sync_progress # <<>> =>
              sync_progress[Len(sync_progress)] = <<Len(chunks), Len(chunks)>>

\* The part of C10 that the code keeps: both modes return the same results.
ResultParity == AsyncReturned => all_results = sync_results

(***************************************************************************)
(* The rate window (SpecWindow).                                           *)
(***************************************************************************)

\* The number of timestamps of a list that are less than one minute old at
\* time t.
RecentCount(times, t) == SumOver(times, {x \in DOMAIN times : t - x < WindowTicks})

RpmOf(model) == ConfigOf(model).rate_limit_rpm
CheckReturned == ret.op = "check_rate_limit"

\* A check of the same model that refused with exactly R timestamps in the
\* window, no request recorded since, and the oldest of these timestamps more
\* than one minute old at the last check.
OldestAgedOut ==
    /\ CheckReturned
    /\ last_denial # NoDenial
    /\ last_denial.model = ret.model
    /\ RecentCount(last_denial.times, last_denial.at) = RpmOf(ret.model)
    /\ ret.at - OldestOf(last_denial.times) > WindowTicks

\* C11: with R the rate_limit_rpm of the model, check_rate_limit refuses when
\* exactly R timestamps lie in the last 60 seconds, and once the oldest of
\* them is more than 60 seconds old, no request having been recorded since,
\* it allows again.
C11_WindowFullThenFree ==
    /\ CheckReturned /\ RecentCount(ret.times, ret.at) = RpmOf(ret.model) => ~ret.allowed
    /\ OldestAgedOut => ret.allowed

\* C11 witness: a check was refused with exactly R timestamps in the window
\* and, the oldest having aged out, the next check of the model is allowed.
C11_Witness == OldestAgedOut /\ ret.allowed /\ ret.at > last_denial.at

\* C12: the result of check_rate_limit(m) depends only on the requests issued
\* to m in the last 60 seconds: m is allowed exactly when fewer than its
\* rate_limit_rpm requests were issued to m, whatever was recorded for the
\* other models.
C12_PerModelWindow ==
    CheckReturned /\ ret.model \in Models =>
        (ret.allowed <=> RecentCount(ret.issued[ret.model], ret.at) < RpmOf(ret.model))

\* What the code does instead: one window for all the models.
SharedWindow ==
    CheckReturned =>
        (ret.allowed <=> RecentCount(ret.times, ret.at) < RpmOf(ret.model))

(***************************************************************************)
(* The model selection (SpecSelect).                                       *)
(***************************************************************************)

SelectReturned == ret.op = "select_best_model"

\* The estimate is within 80% of the model's max_tokens.
Within80Percent(estimate, m) == estimate * 10 <= ModelTable[m].max_tokens * 8

\* The rate check of model m passes on the window the selection was made on.
PassesRateCheck(m) == RecentCount(ret.times, ret.at) < RpmOf(m)

\* The models that fit the estimate of the selection.
FittingModels == {m \in Models : Within80Percent(ret.estimated_tokens, m)}

\* C14: select_best_model returns a model whose max_tokens * 0.8 is below the
\* estimate only when no configured model has max_tokens * 0.8 >= the estimate.
C14_FitsUnlessNoneFits ==
    SelectReturned /\ FittingModels # {} => ret.model \in FittingModels

\* C14 witness: the preferred model does not fit the estimate and is
\* passed over for one that fits.
C14_Witness ==
    /\ SelectReturned
    /\ ret.preferred_model \in Models \ FittingModels
    /\ ret.model \in FittingModels

\* The four steps of the reference procedure: the models it may return.
WaitSecondsOf(m) == CheckRateLimit(m, ret.times, ret.at).wait_time
PreferredTaken ==
    /\ ret.preferred_model \in Models
    /\ ret.preferred_model \in FittingModels
    /\ PassesRateCheck(ret.preferred_model)
AvailableRanks ==
    {k \in 1..3 : LET m == <<"gpt-4o-mini", "gpt-3.5-turbo", "gpt-4">>[k]
                  IN m \in FittingModels /\ PassesRateCheck(m)}
ReferenceModels ==
    IF PreferredTaken THEN {ret.preferred_model}
    ELSE IF AvailableRanks # {}
         THEN {<<"gpt-4o-mini", "gpt-3.5-turbo", "gpt-4">>[
                   CHOOSE k \in AvailableRanks : \A j \in AvailableRanks : k <= j]}
    ELSE IF FittingModels # {}
         THEN {m \in FittingModels :
                   \A other \in FittingModels : WaitSecondsOf(m) <= WaitSecondsOf(other)}
    ELSE {"gpt-4o-mini"}

\* C15: select_best_model returns what the reference procedure returns: the
\* preferred model if it is configured, fits and passes the rate check; else
\* the first of gpt-4o-mini, gpt-3.5-turbo, gpt-4 that fits and passes; else
\* a model with the smallest wait among those that fit; else gpt-4o-mini.
C15_ReferenceProcedure == SelectReturned => ret.model \in ReferenceModels

\* C15 witnesses, one per step of the procedure.
C15_WitnessPreferred == SelectReturned /\ PreferredTaken /\ ret.model = "gpt-4"
C15_WitnessFirstAvailable ==
    /\ SelectReturned /\ ~PreferredTaken
    /\ ret.preferred_model = "gpt-4o-mini" /\ ret.model = "gpt-3.5-turbo"
C15_WitnessShortestWait ==
    /\ SelectReturned /\ AvailableRanks = {} /\ FittingModels # {}
    /\ WaitSecondsOf(ret.model) > 0
C15_WitnessDefault == SelectReturned /\ FittingModels = {} /\ ret.model = "gpt-4o-mini"
C15_Witness ==
    /\ SelectReturned /\ ~PreferredTaken /\ AvailableRanks = {}
    /\ Cardinality(FittingModels) > 1
    /\ ret.preferred_model \in FittingModels
    /\ ret.model # ret.preferred_model

(***************************************************************************)
(* The calls with retries (SpecCall).                                      *)
(***************************************************************************)

\* The API requests issued to model m in the 60 seconds that end at time t.
IssuedWithin(m, t) ==
    SumOver(issued[m], {x \in DOMAIN issued[m] : t - WindowTicks < x /\ x <= t})

\* C13: whatever the interleaving of the calls, the number of API requests
\* issued to a model within any trailing 60-second window never exceeds the
\* model's rate_limit_rpm.
C13_WindowNeverExceeded ==
    \A m \in Models : \A t \in DOMAIN issued[m] :
        IssuedWithin(m, t) <= ModelTable[m].rate_limit_rpm

\* C13 witness: two concurrent calls on the same model; one has made the
\* request that fills the model's window and waits for the API, the other was
\* refused by the rate check and sleeps.
C13_Witness ==
    \E c \in CallIds, d \in CallIds, m \in Models :
        /\ c # d
        /\ calls[c].mode = "async" /\ calls[d].mode = "async"
        /\ calls[c].pc = "calling" /\ calls[c].selected_model = m
        /\ calls[d].pc = "sleeping" /\ calls[d].selected_model = m
        /\ calls[d].denials > 0
        /\ IssuedWithin(m, now) = ModelTable[m].rate_limit_rpm

\* A call has ended by returning a dictionary with the success field, and
\* with the error field and attempt = max_retries when success is false.
ReturnedResult(call) ==
    /\ call.pc = "returned"
    /\ "success" \in DOMAIN call.result
    /\ ~call.result.success =>
          "error" \in DOMAIN call.result /\ call.result.attempt = max_retries

\* A call was made with no client set.
RaisedForNoClient(call) == call.pc = "raised" /\ call.last_exception = "no_client"

\* The last API error of the call is a context-length error on a model that
\* has no smaller model.
NoSmallerModelLeft(call) ==
    /\ call.last_error.kind = "context_length"
    /\ call.last_error.model \notin {"gpt-4", "gpt-4o-mini"}

\* C16: the calls never raise because of API errors: whatever the API
\* outcomes, a call that has ended has returned a dictionary with a success
\* field, with success = false and an error field when the attempts are used up.
C16_NeverRaises ==
    \A c \in CallIds :
        Ended(calls[c]) => ReturnedResult(calls[c]) \/ RaisedForNoClient(calls[c])

\* C16 as the code has it: a call raises an API error only when the error is
\* a context-length error and the model has no smaller model; every other
\* call that ends returns a dictionary with a success field, with
\* success = false, an error field and attempt = max_retries when the attempts
\* are used up.
C16_RaisesOnlyContextLength ==
    \A c \in CallIds :
        /\ Ended(calls[c]) =>
              \/ ReturnedResult(calls[c])
              \/ RaisedForNoClient(calls[c])
              \/ calls[c].pc = "raised" /\ NoSmallerModelLeft(calls[c])
        /\ calls[c].attempt <= max_retries

\* C16 witness: an asynchronous call has returned success = false after
\* using up its attempts on errors, and a synchronous one has raised the
\* context-length error of gpt-3.5-turbo.
C16_Witness ==
    \E c \in CallIds, d \in CallIds :
        /\ calls[c].mode = "async" /\ calls[d].mode = "sync"
        /\ ReturnedResult(calls[c]) /\ ~calls[c].result.success
        /\ calls[c].api_requests = max_retries /\ max_retries > 0
        /\ calls[d].pc = "raised" /\ NoSmallerModelLeft(calls[d])

\* The model the table gives as fallback, the same model where there is none.
FallbackInTable(m) ==
    IF ModelTable[m].fallback_model = "none" THEN m ELSE ModelTable[m].fallback_model

RECURSIVE RateLimitErrors(_)
RateLimitErrors(S) ==
    IF S = {} THEN 0
    ELSE LET c == CHOOSE c \in S : TRUE
         IN calls[c].rate_limit_errors + RateLimitErrors(S \ {c})

\* C17: each rate-limit error of the API adds exactly 1 to rate_limit_hits,
\* the attempt after it uses the fallback model of the model that was refused
\* (the same model where none is defined) and comes after a sleep; a call
\* makes at most max_retries API requests.
C17_RateLimitHandling ==
    /\ usage_stats.rate_limit_hits = RateLimitErrors(CallIds)
    /\ \A c \in CallIds :
          /\ calls[c].api_requests <= max_retries
          /\ calls[c].last_error.kind = "rate_limit" =>
                IF calls[c].last_error.retried_at < 0
                THEN calls[c].pc \in {"sleeping", "returned"}
                ELSE /\ calls[c].last_error.retried_model =
                            FallbackInTable(calls[c].last_error.model)
                     /\ calls[c].last_error.retried_at > calls[c].last_error.at

\* C17 witness: a call got a rate-limit error on a model with a fallback,
\* slept, and made its last allowed request with the fallback model.
C17_Witness ==
    \E c \in CallIds :
        /\ calls[c].last_error.kind = "rate_limit"
        /\ calls[c].last_error.retried_at > calls[c].last_error.at
        /\ calls[c].last_error.retried_model # calls[c].last_error.model
        /\ calls[c].pc = "calling"
        /\ calls[c].api_requests = max_retries
        /\ usage_stats.rate_limit_hits > 0

\* After a context-length error on a model that has a smaller one, the next
\* attempt is made at once with the next model down, unless no attempt is left.
SteppedDown(call) ==
    \/ /\ call.last_error.retried_at = call.last_error.at
       /\ call.last_error.retried_model = FallbackInTable(call.last_error.model)
    \/ /\ call.last_error.attempt + 1 = max_retries
       /\ call.pc = "returned" /\ ~call.result.success

\* C18: after a context-length error the next attempt uses the next model
\* down the chain with no backoff sleep in between; when no smaller model is
\* left the call ends by returning success = false, not by raising.
C18_StepDownOrFailure ==
    \A c \in CallIds :
        calls[c].last_error.kind = "context_length" =>
            IF NoSmallerModelLeft(calls[c])
            THEN calls[c].pc = "returned" /\ ~calls[c].result.success
            ELSE SteppedDown(calls[c])

\* C18 as the code has it: when no smaller model is left the call raises the
\* API error to its caller.
C18_StepDownOrRaise ==
    \A c \in CallIds :
        calls[c].last_error.kind = "context_length" =>
            IF NoSmallerModelLeft(calls[c])
            THEN calls[c].pc = "raised"
            ELSE SteppedDown(calls[c])

\* C18 witness: one call got a context-length error on gpt-4 and waits for
\* the answer to the request it made at once with gpt-4o-mini; another has
\* raised the context-length error of gpt-3.5-turbo.
C18_Witness ==
    \E c \in CallIds, d \in CallIds :
        /\ calls[c].pc = "calling"
        /\ calls[c].last_error.kind = "context_length"
        /\ calls[c].last_error.model = "gpt-4"
        /\ calls[c].selected_model = "gpt-4o-mini"
        /\ calls[c].last_error.retried_at = calls[c].last_error.at
        /\ calls[d].pc = "raised" /\ NoSmallerModelLeft(calls[d])

(***************************************************************************)
(* The batch enhancer and its surroundings (Spec).                         *)
(***************************************************************************)

\* The batches whose enhance_batch_async call has ended.
EnhanceEnded == {b \in DOMAIN batch_results : task_pc[b] = "done"}

\* C19: enhance_batch_async never raises, it always ends by returning a
\* dictionary: success = false with an error text and no results when the
\* client is missing or the API call or the handling of the response failed,
\* success = true with exactly one result per item of the batch otherwise.
C19_EnhanceBatchResult ==
    \A b \in DOMAIN batch_results :
        /\ b \in EnhanceEnded <=> batch_results[b] # NoResult
        /\ b \in EnhanceEnded =>
              LET r == batch_results[b] IN
              /\ r.batch_id = b
              /\ r.success <=> Succeeded(b)
              /\ ~r.success => r.error # "" /\ r.results = <<>>
              /\ r.success =>
                    /\ Len(r.results) = Len(BatchOf(b))
                    /\ \A i \in 1..Len(BatchOf(b)) :
                          /\ r.results[i].original = BatchOf(b)[i]
                          /\ r.results[i].item_index = i - 1

\* C19 witness: of three batches one failed in the API call, one in the
\* handling of the response, and one of two items succeeded on a response
\* with no text for its second item.
C19_Witness ==
    /\ Len(chunks) = 3
    /\ EnhanceEnded = {0, 1, 2}
    /\ \E b \in EnhanceEnded : batch_results[b].error = "api error"
    /\ \E b \in EnhanceEnded : batch_results[b].error = "response error"
    /\ \E b \in EnhanceEnded :
          /\ batch_results[b].success
          /\ Len(batch_results[b].results) = 2
          /\ batch_results[b].results[2].enhanced = Placeholder

\* The batches whose API call has been issued, and those that succeeded.
BatchCallsIssued == {b \in DOMAIN task_pc : task_pc[b] = "calling"} \cup DOMAIN api_outcome
BatchCallsSucceeded == {b \in DOMAIN batch_results : batch_results[b].success}

\* C20: no API call of a batch is issued without the rate limiter having
\* checked and recorded the request in its window before, and none succeeds
\* without the usage counters being updated after.
C20_LimiterAroundEveryCall ==
    /\ Cardinality(BatchCallsIssued) <= CountOf(request_times)
    /\ pc = "async_returned" => Cardinality(BatchCallsSucceeded) <= usage_stats.total_requests

(***************************************************************************)
(* The usage tracker (SpecUsage).                                          *)
(***************************************************************************)

\* The statistics hold no usage.
Zeroed(stats) ==
    /\ stats.total_requests = 0 /\ stats.total_tokens = 0 /\ stats.total_cost = 0
    /\ stats.rate_limit_hits = 0 /\ stats.model_usage = <<>>

\* C22: a reset after any calls sets total_requests, total_tokens, total_cost
\* and rate_limit_hits to 0 and model_usage to empty and keeps session_id; a
\* second reset right after the first changes nothing.
C22_ResetZeroes ==
    ret.op = "reset" =>
        /\ Zeroed(usage_stats)
        /\ usage_stats.session_id = ret.before.session_id
        /\ DOMAIN usage_stats = DOMAIN ret.before
        /\ ret.prev.op = "reset" => usage_stats = ret.before

\* C22 witness: a session other than the default one recorded a call and a
\* rate-limit hit and was then reset twice.
C22_Witness ==
    /\ ret.op = "reset" /\ ret.prev.op = "reset"
    /\ ret.prev.before.total_requests > 0 /\ ret.prev.before.rate_limit_hits > 0
    /\ ret.prev.before.session_id = "session-1"

\* The prices of a model per 1000 tokens, those of gpt-4o-mini for a name
\* that is not configured.
PricesOf(m) == IF m \in Models THEN ModelTable[m] ELSE ModelTable["gpt-4o-mini"]

C27_UsageConsistent ==
    /\ SumOver(usage_stats.model_usage, DOMAIN usage_stats.model_usage)
          = usage_stats.total_requests
    /\ usage_stats.total_requests = successes
    /\ ret.op = "failed_attempt" =>
          /\ usage_stats.total_requests = ret.before.total_requests
          /\ usage_stats.total_tokens = ret.before.total_tokens
          /\ usage_stats.total_cost = ret.before.total_cost
          /\ usage_stats.model_usage = ret.before.model_usage
          /\ usage_stats.rate_limit_hits = ret.before.rate_limit_hits
                + (IF ret.outcome = "rate_limit" THEN 1 ELSE 0)

\* C27 witness: two calls on different models were recorded, the statistics
\* were reset, and a rate-limit error has followed.
C27_Witness ==
    /\ ret.op = "failed_attempt" /\ ret.outcome = "rate_limit"
    /\ ret.prev.op = "reset"
    /\ Cardinality(DOMAIN ret.prev.before.model_usage) = 2
    /\ usage_stats.rate_limit_hits = 1 /\ successes = 0

(***************************************************************************)
(* The wait that check_rate_limit returns (SpecWindow).                    *)
(***************************************************************************)

\* The ticks left, at the last check, until the oldest timestamp that was
\* less than one minute old is one minute old.
TicksUntilOldestExpires ==
    LET inside == {x \in DOMAIN ret.times : ret.at - x < WindowTicks}
        oldest == CHOOSE x \in inside : \A y \in inside : x <= y
    IN oldest + WindowTicks - ret.at

\* C24: when check_rate_limit refuses, the wait it returns is the time left
\* until the oldest timestamp inside the window expires; when it allows, the
\* wait is 0.
C24_WaitIsTimeLeft ==
    CheckReturned =>
        IF ret.allowed THEN ret.wait_time = 0
        ELSE ret.wait_time * TicksPerSecond = TicksUntilOldestExpires

\* C24 as the code has it: the wait is the time left cut down to whole
\* seconds, less than one second short of it.
C24_WaitIsWholeSecondsLeft ==
    CheckReturned =>
        IF ret.allowed THEN ret.wait_time = 0
        ELSE /\ ret.wait_time * TicksPerSecond <= TicksUntilOldestExpires
             /\ TicksUntilOldestExpires < (ret.wait_time + 1) * TicksPerSecond

\* C24 witness: a check was refused when a fraction of a second over a whole
\* number of seconds was left, and returned the whole seconds.
C24_Witness ==
    /\ CheckReturned /\ ~ret.allowed
    /\ ret.wait_time > 0
    /\ ret.wait_time * TicksPerSecond < TicksUntilOldestExpires

(***************************************************************************)
(* The fallback chain and the failures of a call (SpecCall).               *)
(***************************************************************************)

\* Following fallback_model from m reaches None in at most k steps.
RECURSIVE ChainEnds(_, _)
ChainEnds(m, k) ==
    /\ k > 0
    /\ \/ ModelTable[m].fallback_model = "none"
       \/ /\ ModelTable[m].fallback_model \in Models
          /\ ChainEnds(ModelTable[m].fallback_model, k - 1)

\* The number of models from m to the end of the chain, m included.
RECURSIVE ChainRank(_)
ChainRank(m) ==
    IF ModelTable[m].fallback_model = "none" THEN 1
    ELSE 1 + ChainRank(ModelTable[m].fallback_model)

\* C28: the fallback_model links form the chain gpt-4 -> gpt-4o-mini ->
\* gpt-3.5-turbo -> None without a cycle, and in a call the selected model
\* only moves forward along it: after an error the model is the one the
\* error came from or its fallback_model, never one further back, and the
\* step down after a context-length error lands on the fallback_model.
C28_ForwardAlongChain ==
    /\ \A m \in Models : ChainEnds(m, Cardinality(Models))
    /\ ChainRank("gpt-4") = 3 /\ ChainRank("gpt-4o-mini") = 2
    /\ ChainRank("gpt-3.5-turbo") = 1
    /\ \A c \in CallIds :
          LET e == calls[c].last_error
              m == calls[c].selected_model
          IN e.kind # "none" =>
                /\ m \in Models
                /\ ChainRank(m) <= ChainRank(e.model)
                /\ m # e.model => m = ModelTable[e.model].fallback_model
                /\ e.kind = "context_length" /\ calls[c].pc # "raised" =>
                      m = ModelTable[e.model].fallback_model

\* C28 witness: a call that began with gpt-4 went to gpt-4o-mini on a
\* rate-limit error and to gpt-3.5-turbo on a context-length error.
C28_Witness ==
    \E c \in CallIds :
        /\ calls[c].rate_limit_errors = 1
        /\ calls[c].last_error.kind = "context_length"
        /\ calls[c].last_error.model = "gpt-4o-mini"
        /\ calls[c].selected_model = "gpt-3.5-turbo"
        /\ calls[c].pc = "calling"

\* C29: a call with max_retries >= 1 that returns success = false has issued
\* at least one API request, its error is that of the last exception the API
\* raised, and every attempt it used was an issued request, none a wait for
\* the rate window.
C29_FailureAfterRequests ==
    \A c \in CallIds :
        calls[c].pc = "returned" /\ ~calls[c].result.success /\ max_retries >= 1 =>
            /\ calls[c].api_requests >= 1
            /\ calls[c].result.error = calls[c].last_error.kind
            /\ calls[c].denials = 0
            /\ calls[c].api_requests = max_retries

(***************************************************************************)
(* The identity and the order of the results (Spec).                       *)
(***************************************************************************)

\* the (batch_id, item_index) pair of a result
PairOf(r) == <<r.batch_id, r.item_index>>

\* the pairs of all the items of the successful batches of the input
SuccessfulPairs ==
    UNION {{<<b, i>> : i \in 0..(Len(BatchOf(b)) - 1)} : b \in {x \in BatchIds : Succeeded(x)}}

\* C21: in every result of a successful batch, batch_id is the index of the
\* batch in the input list, item_index the position of the item in its batch
\* (from 0) and original the item itself; so no two results of the returned
\* list have the same (batch_id, item_index), and the pairs of the list are
\* those of the items of the successful batches: sorted by the pair, the
\* originals are the input restricted to the successful batches.
C21_ResultIdentity ==
    /\ pc \in {"gather", "async_returned"} =>
          \A b \in BatchIds : batch_results[b].success =>
              /\ Len(batch_results[b].results) = Len(BatchOf(b))
              /\ \A k \in 1..Len(batch_results[b].results) :
                    LET r == batch_results[b].results[k] IN
                    /\ r.batch_id = b
                    /\ r.item_index = k - 1
                    /\ r.original = BatchOf(b)[k]
    /\ AsyncReturned =>
          /\ \A j, k \in 1..Len(all_results) :
                j # k => PairOf(all_results[j]) # PairOf(all_results[k])
          /\ {PairOf(all_results[k]) : k \in 1..Len(all_results)} = SuccessfulPairs
          /\ \A k \in 1..Len(all_results) :
                all_results[k].original =
                    BatchOf(all_results[k].batch_id)[all_results[k].item_index + 1]

\* C21 witness: of three batches the first and the last succeeded, each with
\* two items, the middle one failed, and the list ends with the second item of
\* the last batch.
C21_Witness ==
    /\ AsyncReturned
    /\ Len(chunks) = 3
    /\ Len(BatchOf(0)) = 2 /\ Len(BatchOf(2)) = 2
    /\ Succeeded(0) /\ ~Succeeded(1) /\ Succeeded(2)
    /\ Len(all_results) = 4
    /\ PairOf(all_results[4]) = <<2, 1>>
    /\ all_results[4].original = BatchOf(2)[2]

\* (b, i) comes before (c, j): by batch index, then by item_index
PairBefore(p, q) == p[1] < q[1] \/ (p[1] = q[1] /\ p[2] < q[2])

\* C30: the list process_all_batches_async returns is ordered by batch index,
\* then by item_index, in whatever order the batches ended.
C30_OrderedByBatchThenItem ==
    AsyncReturned =>
        \A j, k \in 1..Len(all_results) :
            j < k => PairBefore(PairOf(all_results[j]), PairOf(all_results[k]))

\* C30 witness: three successful batches, one of which ended before a batch
\* in front of it, and the list returned.
C30_Witness ==
    /\ AsyncReturned
    /\ overtaken
    /\ Len(chunks) = 3
    /\ \A b \in BatchIds : Succeeded(b)
    /\ Len(all_results) >= 3

(***************************************************************************)
(* Failed batches and the end of the run (SpecFair).                       *)
(***************************************************************************)

\* Each batch is handed to enhance_batch_async once its task has passed the
\* semaphore and the pacing delay, and never again; the task of a batch that
\* has ended, failed or not, has called the progress callback once.
DispatchedOnce ==
    pc \in {"gather", "async_returned"} =>
        /\ \A b \in BatchIds :
              /\ dispatched[b] = IF task_pc[b] \in {"calling", "done"} THEN 1 ELSE 0
              /\ task_pc[b] = "done" => cb_calls[b] = 1 /\ batch_results[b] # NoResult
        /\ Len(progress) = Cardinality({b \in BatchIds : task_pc[b] = "done"})
        /\ AsyncReturned => \A b \in BatchIds : dispatched[b] = 1

\* the API call of batch b stays pending
Pending(b) == pc = "gather" /\ b \in DOMAIN task_pc /\ task_pc[b] = "calling"

\* C25: a failed batch does not end the run: every batch is dispatched exactly
\* once (none is skipped, none is sent again), the progress callback is called
\* for the failed batches too, and process_all_batches_async returns unless
\* the API call of some batch never returns.
C25_FailureNotFatal ==
    /\ []DispatchedOnce
    /\ \/ \E b \in 0..(MaxBatches - 1) : <>[]Pending(b)
       \/ <>AsyncReturned

\* C25 witness: the first of three batches failed in the API call, the other
\* two were dispatched after it and succeeded, and the run returned.
C25_Witness ==
    /\ AsyncReturned
    /\ Len(chunks) = 3
    /\ ~overtaken
    /\ ~batch_results[0].success /\ batch_results[0].error = "api error"
    /\ batch_results[1].success /\ batch_results[2].success
    /\ \A b \in BatchIds : dispatched[b] = 1 /\ cb_calls[b] = 1
    /\ Len(progress) = 3

(***************************************************************************)
(* The pacing delay (SpecParity).                                          *)
(***************************************************************************)

\* A step of the concurrent mode: a batch is handed to enhance_batch_async
\* from the pacing sleep if its batch_id > 0, straight from the semaphore if
\* it is the first; and a task enters the sleep in the step in which it takes
\* its unit of the semaphore.
PacedStep ==
    \A b \in DOMAIN dispatched \cap DOMAIN dispatched' :
        /\ dispatched'[b] # dispatched[b] =>
              IF b > 0 THEN task_pc[b] = "sleeping"
              ELSE task_pc[b] \in {"created", "waiting"}
        /\ task_pc'[b] = "sleeping" /\ task_pc[b] # "sleeping" =>
              /\ task_pc[b] \in {"created", "waiting"}
              /\ sem_value' = sem_value - 1
              /\ dispatched'[b] = 0

\* The sequential mode has slept after each of the batches before the one it
\* is at, and after every batch but the last when it returns.
SleptBetween ==
    /\ pc \in {"sync_progress", "sync_call"} => sync_sleeps = 0..(sync_i - 1)
    /\ pc = "sync_returned" /\ chunks # <<>> => sync_sleeps = 0..(Len(chunks) - 2)

\* C26: in both modes a pacing delay comes before the API call of every batch
\* but the first: in the concurrent mode each batch with batch_id > 0 sleeps
\* after it has taken its slot and before its call, in the sequential mode a
\* sleep separates any two consecutive batch calls.
C26_PacingBeforeCall ==
    /\ [][PacedStep]_vars
    /\ []SleptBetween

\* C26 witness: the sequential mode has slept between its batches, and in the
\* concurrent mode the second batch is in its API call, entered from the sleep.
C26_Witness ==
    /\ pc = "gather"
    /\ Len(chunks) >= 2
    /\ sync_sleeps = 0..(Len(chunks) - 2)
    /\ task_pc[0] = "calling"
    /\ task_pc[1] = "calling"
    /\ dispatched[1] = 1

====
